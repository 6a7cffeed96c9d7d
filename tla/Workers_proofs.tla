---------------------------- MODULE Workers_proofs ----------------------------
(***************************************************************************)
(* Proofs about the threads that work for another one, for any number of   *)
(* threads, jobs and blocks.  A job is in one place at a time: in a queue, *)
(* with a worker or among the results.  So it is never done twice, and it  *)
(* gets lost only where the code drops it.  And about the peers of a       *)
(* connection, which the same runs check.                                  *)
(***************************************************************************)
EXTENDS Workers, Emerge_proofs, FiniteSetTheorems, WellFoundedInduction, TLAPS

-----------------------------------------------------------------------------
(* Peers, for any number of them and of application threads: a handle      *)
(* never outlives its peer, the use count is the number of handles, a peer *)
(* is deleted with no handle on it, nothing is left of them when the       *)
(* connection is gone, and the application is told the truth about who is  *)
(* there.                                                                  *)
(* The invariant has two parts: Core relates the objects, the map, the     *)
(* counts, the handles and the deletions under way, and is kept by the     *)
(* operations on peers whoever calls them; Threads says which handles the  *)
(* threads can hold where, on which the destructor of Connection relies.   *)
Deleting(t) == deleting[t] # NotDeleting

CoreType ==
  /\ m_peers \subseteq created /\ created \subseteq Peers
  /\ allocated \subseteq created
  /\ m_peers \subseteq allocated
  /\ m_pending_deletion \subseteq created
  /\ m_usage \in [Peers -> Nat]
  /\ helper \in [Helpers -> Peers \union {None}]
  /\ deleting \in [Deleters -> {NotDeleting} \union
                                [peer : Peers, step : {"event", "drop"}]]

UsageAgrees == \A p \in Peers : m_usage[p] = Cardinality(HoldersOf(p))

HeldIsAllocated == \A h \in Helpers : helper[h] # None => helper[h] \in allocated

PendingIsOut == m_pending_deletion \cap m_peers = {}

DeletingIsOut ==
  \A t \in Deleters : Deleting(t) =>
    /\ deleting[t].peer \in allocated
    /\ deleting[t].peer \notin m_peers
    /\ deleting[t].peer \notin m_pending_deletion

DeletersDiffer ==
  \A s, t \in Deleters :
    Deleting(s) /\ Deleting(t) /\ s # t => deleting[s].peer # deleting[t].peer

(* What is allocated is in the map, on its way out, or held by somebody    *)
(* who will delete it.                                                     *)
AllocatedIsOwned ==
  \A p \in allocated :
    \/ p \in m_peers
    \/ \E t \in Deleters : Deleting(t) /\ deleting[t].peer = p
    \/ p \in m_pending_deletion /\ \E h \in Helpers : helper[h] = p

Core == /\ CoreType
        /\ UsageAgrees
        /\ HeldIsAllocated
        /\ PendingIsOut
        /\ DeletingIsOut
        /\ DeletersDiffer
        /\ AllocatedIsOwned

Threads ==
  /\ m_pending_disconnect \subseteq Peers /\ collected \subseteq Peers
  /\ phase \in {"timeouts", "remove_timed_out", "commands", "send",
                "remove_disconnected", "exited"}
  /\ stage \in {"idle", "got", "processing", "disconnecting", "done"}
  /\ connection \in {"open", "stopping", "gone"}
  /\ phase \in {"remove_timed_out", "remove_disconnected", "exited"}
       => helper["send"] = None
  /\ phase \notin {"remove_timed_out", "remove_disconnected"}
       => deleting["send"] = NotDeleting
  /\ stage = "idle" => helper["receive"] = None
  /\ stage \notin {"processing", "disconnecting"} <=> helper["process"] = None
  /\ stage # "disconnecting" => deleting["receive"] = NotDeleting
  /\ connection # "open" => \A t \in AppThreads : helper[t] = None
  /\ connection = "gone" => allocated = {}

Events ==
  /\ result \in Peers \union {None}
  /\ m_event_queue \in Seq(Event) /\ told \in Seq(Event)
  /\ data \in 0 .. MaxData

IInv == Core /\ Threads /\ Events

USE PeerLifecycleAssumption

-----------------------------------------------------------------------------
(* The handles are finitely many, so that they can be counted.             *)
LEMMA HelpersFinite == IsFiniteSet(Helpers)
<1>1. IsFiniteSet({"send"}) /\ IsFiniteSet({"receive"}) /\ IsFiniteSet({"process"})
  BY FS_Singleton
<1>2. IsFiniteSet({"send"} \union {"receive"} \union {"process"})
  BY <1>1, FS_Union
<1>3. IsFiniteSet(({"send"} \union {"receive"} \union {"process"}) \union AppThreads)
  BY <1>2, FS_Union
<1>4. Helpers = ({"send"} \union {"receive"} \union {"process"}) \union AppThreads
  BY DEF Helpers
<1> QED BY <1>3, <1>4

(* The holders of a peer are finitely many, in any state.                  *)
LEMMA HoldersFinite ==
  ASSUME NEW p
  PROVE  IsFiniteSet(HoldersOf(p)) /\ IsFiniteSet(HoldersOf(p))'
<1>1. HoldersOf(p) \subseteq Helpers /\ HoldersOf(p)' \subseteq Helpers
  BY DEF HoldersOf
<1> QED BY <1>1, HelpersFinite, FS_Subset

(* getPeerNoEx keeps Core, whoever calls it.                               *)
LEMMA GetKeeps ==
  ASSUME Core, NEW h \in Helpers, NEW p \in Peers, GetPeer(h, p),
         UNCHANGED deleting
  PROVE  Core' /\ helper'[h] = p /\ allocated' = allocated
<1>1. CoreType'
  BY DEF Core, CoreType, GetPeer, Helpers
<1>2. UsageAgrees'
  <2> SUFFICES ASSUME NEW q \in Peers PROVE m_usage'[q] = Cardinality(HoldersOf(q)')
    BY DEF UsageAgrees
  <2>1. CASE q = p
    <3>1. HoldersOf(p)' = HoldersOf(p) \union {h} /\ h \notin HoldersOf(p)
      BY DEF Core, CoreType, GetPeer, HoldersOf
    <3>2. Cardinality(HoldersOf(p)') = Cardinality(HoldersOf(p)) + 1
      BY <3>1, HoldersFinite, FS_AddElement
    <3>3. m_usage'[p] = m_usage[p] + 1
      BY DEF Core, CoreType, GetPeer
    <3> QED BY <2>1, <3>2, <3>3 DEF Core, UsageAgrees
  <2>2. CASE q # p
    <3>1. HoldersOf(q)' = HoldersOf(q)
      BY <2>2 DEF Core, CoreType, GetPeer, HoldersOf
    <3>2. m_usage'[q] = m_usage[q]
      BY <2>2 DEF Core, CoreType, GetPeer
    <3> QED BY <3>1, <3>2 DEF Core, UsageAgrees
  <2> QED BY <2>1, <2>2
<1>3. HeldIsAllocated'
  BY DEF Core, CoreType, HeldIsAllocated, GetPeer
<1>4. AllocatedIsOwned'
  BY DEF Core, CoreType, AllocatedIsOwned, GetPeer, Deleting
<1>5. PendingIsOut' /\ DeletingIsOut' /\ DeletersDiffer'
  BY DEF Core, PendingIsOut, DeletingIsOut, DeletersDiffer, GetPeer, Deleting
<1>6. helper'[h] = p /\ allocated' = allocated
  BY DEF Core, CoreType, GetPeer
<1> QED BY <1>1, <1>2, <1>3, <1>4, <1>5, <1>6 DEF Core

(* So does the end of a handle: it deletes the peer only when nobody else  *)
(* holds it and it is out of everybody's sight.                            *)
LEMMA ReleaseKeeps ==
  ASSUME Core, NEW h \in Helpers, ReleasePeer(h), UNCHANGED deleting
  PROVE  /\ Core' /\ helper'[h] = None /\ allocated' \subseteq allocated
         /\ \A p \in allocated \ allocated' : m_usage'[p] = 0
<1>0. PICK p \in Peers : p = helper[h] /\ p \in allocated /\ p # None
  BY DEF Core, CoreType, HeldIsAllocated, ReleasePeer
<1>1. HoldersOf(p)' = HoldersOf(p) \ {h} /\ h \in HoldersOf(p)
  BY <1>0 DEF Core, CoreType, ReleasePeer, HoldersOf
<1>2. /\ Cardinality(HoldersOf(p)') = Cardinality(HoldersOf(p)) - 1
      /\ Cardinality(HoldersOf(p)') \in Nat
  BY <1>1, HoldersFinite, FS_RemoveElement, FS_CardinalityType
<1>3. m_usage[p] = Cardinality(HoldersOf(p)) /\ m_usage'[p] = m_usage[p] - 1
  BY <1>0 DEF Core, CoreType, UsageAgrees, ReleasePeer
<1>4. m_usage'[p] \in Nat
  BY <1>2, <1>3
<1>5. m_usage' \in [Peers -> Nat]
  BY <1>0, <1>4 DEF Core, CoreType, ReleasePeer
<1>6. CoreType'
  <2>1. p \in m_pending_deletion => p \notin m_peers
    BY DEF Core, PendingIsOut
  <2> QED BY <2>1, <1>0, <1>5 DEF Core, CoreType, ReleasePeer
<1>7. UsageAgrees'
  <2> SUFFICES ASSUME NEW q \in Peers PROVE m_usage'[q] = Cardinality(HoldersOf(q)')
    BY DEF UsageAgrees
  <2>1. CASE q = p
    BY <2>1, <1>2, <1>3
  <2>2. CASE q # p
    <3>1. HoldersOf(q)' = HoldersOf(q)
      BY <2>2, <1>0 DEF Core, CoreType, ReleasePeer, HoldersOf
    <3>2. m_usage'[q] = m_usage[q]
      BY <2>2, <1>0 DEF Core, CoreType, ReleasePeer
    <3> QED BY <3>1, <3>2 DEF Core, UsageAgrees
  <2> QED BY <2>1, <2>2
<1>8. m_usage[p] = 1 => \A g \in Helpers : helper[g] = p => g = h
  <2> SUFFICES ASSUME m_usage[p] = 1 PROVE HoldersOf(p)' = {}
    BY <1>1 DEF HoldersOf
  <2>1. Cardinality(HoldersOf(p)') = 0
    BY <1>2, <1>3
  <2> QED BY <2>1, HoldersFinite, FS_EmptySet
<1>9. HeldIsAllocated'
  <2> SUFFICES ASSUME NEW g \in Helpers, helper'[g] # None
               PROVE  helper'[g] \in allocated'
    BY DEF HeldIsAllocated
  <2>1. g # h /\ helper'[g] = helper[g] /\ helper[g] \in allocated
    BY DEF Core, CoreType, ReleasePeer, HeldIsAllocated
  <2> QED BY <2>1, <1>0, <1>8 DEF ReleasePeer
<1>10. AllocatedIsOwned'
  <2> SUFFICES ASSUME NEW q \in allocated', q \notin m_peers,
                      ~ \E t \in Deleters : Deleting(t) /\ deleting[t].peer = q
               PROVE  q \in m_pending_deletion' /\ \E g \in Helpers : helper'[g] = q
    BY DEF AllocatedIsOwned, ReleasePeer, Deleting
  <2>1. q \in allocated /\ q \in m_pending_deletion
    BY DEF Core, AllocatedIsOwned, ReleasePeer
  <2>2. PICK g \in Helpers : helper[g] = q
    BY <2>1 DEF Core, AllocatedIsOwned
  <2>3. CASE q # p
    BY <2>1, <2>2, <2>3, <1>0 DEF Core, CoreType, ReleasePeer
  <2>4. CASE q = p
    <3>1. m_usage[p] # 1
      BY <2>1, <2>4, <1>0 DEF ReleasePeer
    <3>2. HoldersOf(p)' # {}
      <4> SUFFICES ASSUME HoldersOf(p)' = {} PROVE FALSE
        OBVIOUS
      <4>1. Cardinality(HoldersOf(p)') = 0
        BY FS_EmptySet
      <4>2. m_usage[p] \in Nat
        BY <1>0 DEF Core, CoreType
      <4> QED BY <4>1, <4>2, <1>2, <1>3, <3>1
    <3> QED BY <2>1, <2>4, <3>2 DEF HoldersOf, ReleasePeer
  <2> QED BY <2>3, <2>4
<1>11. PendingIsOut' /\ DeletingIsOut' /\ DeletersDiffer'
  BY DEF Core, PendingIsOut, DeletingIsOut, DeletersDiffer, ReleasePeer, Deleting
<1>12. helper'[h] = None /\ allocated' \subseteq allocated
  BY DEF Core, CoreType, ReleasePeer
<1>13. \A q \in allocated \ allocated' : m_usage'[q] = 0
  BY <1>0, <1>3 DEF ReleasePeer
<1> QED BY <1>6, <1>7, <1>9, <1>10, <1>11, <1>12, <1>13 DEF Core

(* And taking a peer out of the map.                                       *)
LEMMA TakeOutFoundKeeps ==
  ASSUME Core, NEW t \in Deleters, NEW p \in Peers, TakeOut(t, p),
         p \in m_peers, UNCHANGED helper
  PROVE  /\ Core' /\ allocated' = allocated
         /\ \A s \in Deleters \ {t} : deleting'[s] = deleting[s]
<1>1. CoreType'
  BY DEF Core, CoreType, TakeOut
<1>2. UsageAgrees' /\ HeldIsAllocated' /\ PendingIsOut'
  BY DEF Core, UsageAgrees, HeldIsAllocated, PendingIsOut, TakeOut, HoldersOf
<1>3. \A s \in Deleters : deleting'[s] =
         IF s = t THEN [peer |-> p, step |-> "event"] ELSE deleting[s]
  BY DEF Core, CoreType, TakeOut
<1>4. Deleting(t)' /\ deleting'[t].peer = p
  BY <1>3 DEF Deleting, NotDeleting
<1>5. DeletingIsOut'
  <2> SUFFICES ASSUME NEW s \in Deleters, Deleting(s)'
               PROVE  /\ deleting'[s].peer \in allocated'
                      /\ deleting'[s].peer \notin m_peers'
                      /\ deleting'[s].peer \notin m_pending_deletion'
    BY DEF DeletingIsOut
  <2>1. CASE s = t
    BY <2>1, <1>4 DEF Core, CoreType, PendingIsOut, TakeOut
  <2>2. CASE s # t
    BY <2>2, <1>3 DEF Core, DeletingIsOut, TakeOut, Deleting
  <2> QED BY <2>1, <2>2
<1>6. DeletersDiffer'
  BY <1>3, <1>4 DEF Core, DeletingIsOut, DeletersDiffer, Deleting, TakeOut
<1>7. AllocatedIsOwned'
  <2> SUFFICES ASSUME NEW q \in allocated
               PROVE \/ q \in m_peers'
                     \/ \E s \in Deleters : Deleting(s)' /\ deleting'[s].peer = q
                     \/ q \in m_pending_deletion /\ \E h \in Helpers : helper[h] = q
    BY DEF AllocatedIsOwned, TakeOut
  <2>1. CASE q = p
    BY <2>1, <1>4
  <2>2. CASE q # p
    BY <2>2, <1>3 DEF Core, AllocatedIsOwned, TakeOut, Deleting
  <2> QED BY <2>1, <2>2
<1> QED BY <1>1, <1>2, <1>3, <1>5, <1>6, <1>7 DEF Core, TakeOut

LEMMA TakeOutKeeps ==
  ASSUME Core, NEW t \in Deleters, NEW p \in Peers, TakeOut(t, p),
         UNCHANGED helper
  PROVE  /\ Core' /\ allocated' = allocated
         /\ \A s \in Deleters \ {t} : deleting'[s] = deleting[s]
<1>1. CASE p \in m_peers
  BY <1>1, TakeOutFoundKeeps
<1>2. CASE p \notin m_peers
  <2>1. m_peers' = m_peers /\ deleting' = deleting
    BY <1>2 DEF TakeOut
  <2> QED BY <2>1 DEF TakeOut, Core, CoreType, UsageAgrees, HeldIsAllocated,
        PendingIsOut, DeletingIsOut, DeletersDiffer, AllocatedIsOwned, Deleting,
        HoldersOf
<1> QED BY <1>1, <1>2

(* And Drop.                                                               *)
LEMMA DropKeeps ==
  ASSUME Core, NEW t \in Deleters, Drop(t)
  PROVE  /\ Core' /\ allocated' \subseteq allocated
         /\ \A p \in allocated \ allocated' : m_usage'[p] = 0
         /\ \A s \in Deleters \ {t} : deleting'[s] = deleting[s]
         /\ deleting'[t] = NotDeleting
<1> DEFINE p == deleting[t].peer
<1>0. Deleting(t)
  BY DEF Drop, Deleting, NotDeleting
<1>1. p \in Peers /\ p \in allocated /\ p \notin m_peers
  BY <1>0 DEF Core, CoreType, DeletingIsOut
<1>2. m_usage[p] = 0 => \A h \in Helpers : helper[h] # p
  <2> SUFFICES ASSUME m_usage[p] = 0 PROVE HoldersOf(p) = {}
    BY DEF HoldersOf
  <2>1. Cardinality(HoldersOf(p)) = 0
    BY <1>1 DEF Core, UsageAgrees
  <2> QED BY <2>1, HoldersFinite, FS_EmptySet
<1>3. m_usage[p] # 0 => \E h \in Helpers : helper[h] = p
  <2> SUFFICES ASSUME HoldersOf(p) = {} PROVE m_usage[p] = 0
    BY DEF HoldersOf
  <2> QED BY <1>1, FS_EmptySet DEF Core, UsageAgrees
<1>4. \A s \in Deleters :
        deleting'[s] = IF s = t THEN NotDeleting ELSE deleting[s]
  BY DEF Core, CoreType, Drop
<1>5. CoreType'
  BY <1>1 DEF Core, CoreType, Drop
<1>6. UsageAgrees' /\ PendingIsOut'
  BY <1>1 DEF Core, UsageAgrees, PendingIsOut, Drop, HoldersOf
<1>7. HeldIsAllocated'
  BY <1>2 DEF Core, HeldIsAllocated, Drop
<1>8. DeletingIsOut'
  <2> SUFFICES ASSUME NEW s \in Deleters, Deleting(s)'
               PROVE  /\ deleting'[s].peer \in allocated'
                      /\ deleting'[s].peer \notin m_peers'
                      /\ deleting'[s].peer \notin m_pending_deletion'
    BY DEF DeletingIsOut
  <2>1. s # t /\ deleting'[s] = deleting[s] /\ Deleting(s)
    BY <1>4 DEF Deleting
  <2>2. deleting[s].peer # p
    BY <2>1, <1>0 DEF Core, DeletersDiffer
  <2> QED BY <2>1, <2>2 DEF Core, DeletingIsOut, Drop
<1>9. DeletersDiffer'
  BY <1>4 DEF Core, DeletersDiffer, Deleting
<1>10. AllocatedIsOwned'
  <2> SUFFICES ASSUME NEW q \in allocated', q \notin m_peers'
               PROVE \/ \E s \in Deleters : Deleting(s)' /\ deleting'[s].peer = q
                     \/ q \in m_pending_deletion' /\ \E h \in Helpers : helper'[h] = q
    BY DEF AllocatedIsOwned
  <2>0. q \in allocated /\ q \notin m_peers
    BY DEF Drop
  <2>1. CASE q = p
    <3>1. m_usage[p] # 0
      BY <2>1 DEF Drop
    <3> QED BY <2>1, <3>1, <1>3 DEF Drop
  <2>2. CASE q # p
    BY <2>0, <2>2, <1>4 DEF Core, AllocatedIsOwned, Drop, Deleting
  <2> QED BY <2>1, <2>2
<1>11. allocated' \subseteq allocated /\ \A q \in allocated \ allocated' : m_usage'[q] = 0
  BY DEF Drop
<1> QED BY <1>4, <1>5, <1>6, <1>7, <1>8, <1>9, <1>10, <1>11 DEF Core

-----------------------------------------------------------------------------
(* A step of the event queue.                                              *)
LEMMA EventAppended ==
  ASSUME Events, NEW p \in Peers,
         NEW type \in {"PEER_ADDED", "DATA_RECEIVED", "PEER_REMOVED"}
  PROVE  Append(m_event_queue, [type |-> type, peer |-> p]) \in Seq(Event)
BY DEF Events, Event

(* ~Connection finds nobody at work, and deletes what there is.            *)
LEMMA DeletePeersKeeps ==
  ASSUME IInv, DeletePeers
  PROVE  IInv' /\ \A p \in allocated \ allocated' : m_usage'[p] = 0
<1>1. \A h \in Helpers : helper[h] = None
  BY DEF IInv, Threads, DeletePeers, ReceiveIdle, Helpers
<1>2. \A t \in Deleters : ~Deleting(t)
  BY DEF IInv, Threads, DeletePeers, ReceiveIdle, Deleters, Deleting
<1>3. allocated \subseteq m_peers
  BY <1>1, <1>2 DEF IInv, Core, CoreType, AllocatedIsOwned
<1>4. allocated' = {} /\ m_peers' = {}
  BY <1>3 DEF DeletePeers
<1>5. \A p \in Peers : m_usage[p] = 0
  <2> SUFFICES ASSUME NEW p \in Peers PROVE HoldersOf(p) = {}
    BY FS_EmptySet DEF IInv, Core, UsageAgrees
  <2> QED BY <1>1 DEF HoldersOf
<1>6. CoreType' /\ UsageAgrees' /\ HeldIsAllocated' /\ PendingIsOut'
  BY <1>1, <1>4 DEF IInv, Core, CoreType, UsageAgrees, HeldIsAllocated,
                    PendingIsOut, DeletePeers, HoldersOf
<1>7. DeletingIsOut' /\ DeletersDiffer' /\ AllocatedIsOwned'
  BY <1>2, <1>4 DEF DeletingIsOut, DeletersDiffer, AllocatedIsOwned, Deleting,
                    DeletePeers
<1>8. Threads' /\ Events'
  BY <1>4 DEF IInv, Threads, Events, DeletePeers
<1>9. \A p \in allocated \ allocated' : m_usage'[p] = 0
  BY <1>5 DEF DeletePeers, IInv, Core, CoreType
<1> QED BY <1>6, <1>7, <1>8, <1>9 DEF IInv, Core

(* A peer that nobody has seen yet comes.                                  *)
LEMMA CreatePeerKeeps ==
  ASSUME IInv, NEW p \in Peers, CreatePeer(p)
  PROVE  IInv' /\ allocated \subseteq allocated'
<1>1. CoreType' /\ UsageAgrees' /\ HeldIsAllocated' /\ PendingIsOut'
  BY DEF IInv, Core, CoreType, UsageAgrees, HeldIsAllocated, PendingIsOut,
         CreatePeer, HoldersOf
<1>2. DeletingIsOut' /\ DeletersDiffer' /\ AllocatedIsOwned'
  BY DEF IInv, Core, CoreType, DeletingIsOut, DeletersDiffer, AllocatedIsOwned,
         Deleting, CreatePeer
<1>3. Threads'
  BY DEF IInv, Threads, CreatePeer, ReceiveIdle
<1>4. Events'
  BY EventAppended DEF IInv, Events, CreatePeer
<1> QED BY <1>1, <1>2, <1>3, <1>4 DEF IInv, Core, CreatePeer

(* The steps of deletePeer after the first.                                *)
LEMMA DeletePeerStepKeeps ==
  ASSUME IInv, NEW t \in Deleters, DeletePeerStep(t)
  PROVE  IInv' /\ \A p \in allocated \ allocated' : m_usage'[p] = 0
<1>1. CASE PutRemovedEvent(t)
  <2>1. Deleting(t) /\ deleting[t].peer \in Peers
    BY <1>1 DEF PutRemovedEvent, Deleting, NotDeleting, IInv, Core, CoreType
  <2>2. \A s \in Deleters : /\ Deleting(s)' <=> Deleting(s)
                            /\ deleting'[s].peer = deleting[s].peer
    BY <1>1, <2>1 DEF PutRemovedEvent, Deleting, NotDeleting, IInv, Core, CoreType
  <2>3. CoreType'
    BY <1>1, <2>1 DEF PutRemovedEvent, IInv, Core, CoreType, peerVars, NotDeleting,
                      Deleting
  <2>4. UsageAgrees' /\ HeldIsAllocated' /\ PendingIsOut'
    BY <1>1 DEF PutRemovedEvent, IInv, Core, UsageAgrees, HeldIsAllocated,
                PendingIsOut, HoldersOf, peerVars
  <2>5. DeletingIsOut' /\ DeletersDiffer' /\ AllocatedIsOwned'
    BY <1>1, <2>2 DEF PutRemovedEvent, IInv, Core, DeletingIsOut, DeletersDiffer,
                      AllocatedIsOwned, peerVars
  <2>6. Threads'
    BY <1>1, <2>2 DEF PutRemovedEvent, IInv, Threads, peerVars, Deleting, Deleters
  <2>7. Events'
    BY <1>1, <2>1, EventAppended DEF IInv, Events, PutRemovedEvent
  <2> QED BY <1>1, <2>3, <2>4, <2>5, <2>6, <2>7
          DEF IInv, Core, PutRemovedEvent, peerVars
<1>2. CASE Drop(t)
  <2>1. /\ Core' /\ allocated' \subseteq allocated
        /\ \A p \in allocated \ allocated' : m_usage'[p] = 0
        /\ \A s \in Deleters \ {t} : deleting'[s] = deleting[s]
        /\ deleting'[t] = NotDeleting
    BY <1>2, DropKeeps DEF IInv
  <2>2. Threads'
    BY <1>2, <2>1 DEF Drop, IInv, Threads, Deleters
  <2>3. Events'
    BY <1>2 DEF Drop, IInv, Events
  <2> QED BY <2>1, <2>2, <2>3 DEF IInv
<1> QED BY <1>1, <1>2 DEF DeletePeerStep

(* The send thread.                                                        *)
LEMMA SendThreadKeeps ==
  ASSUME IInv, SendThread
  PROVE  IInv' /\ \A p \in allocated \ allocated' : m_usage'[p] = 0
<1>0. "send" \in Helpers /\ "send" \in Deleters /\ "receive" \in Deleters
      /\ "receive" \in Helpers /\ "process" \in Helpers
      /\ \A t \in AppThreads : t \in Helpers /\ t \notin {"send", "receive", "process"}
  BY DEF Helpers, Deleters
<1>1. ASSUME NEW p \in Peers, SendVisit(p)
      PROVE  IInv' /\ allocated' = allocated
  <2>1. Core' /\ allocated' = allocated
    BY <1>0, <1>1, GetKeeps DEF SendVisit, IInv
  <2>2. Threads'
    BY <1>0, <1>1, <2>1 DEF SendVisit, GetPeer, IInv, Core, CoreType, Threads
  <2>3. Events'
    BY <1>1 DEF SendVisit, IInv, Events
  <2> QED BY <2>1, <2>2, <2>3 DEF IInv
<1>2. ASSUME SendCollect \/ SendMark \/ SendLeave
      PROVE  IInv' /\ \A p \in allocated \ allocated' : m_usage'[p] = 0
  <2>0. ReleasePeer("send") /\ UNCHANGED deleting
    BY <1>2 DEF SendCollect, SendMark, SendLeave
  <2>1. Core' /\ allocated' \subseteq allocated
        /\ \A p \in allocated \ allocated' : m_usage'[p] = 0
    BY <1>0, <2>0, ReleaseKeeps DEF IInv
  <2>2. \A h \in Helpers : helper'[h] = IF h = "send" THEN None ELSE helper[h]
    BY <1>0, <2>0 DEF ReleasePeer, IInv, Core, CoreType
  <2>3. helper["send"] \in Peers
    BY <1>0, <2>0 DEF ReleasePeer, IInv, Core, CoreType
  <2>4. Threads'
    BY <1>0, <1>2, <2>1, <2>2, <2>3 DEF SendCollect, SendMark, SendLeave, IInv, Threads
  <2>5. Events'
    BY <1>2 DEF SendCollect, SendMark, SendLeave, IInv, Events
  <2> QED BY <2>1, <2>4, <2>5 DEF IInv
<1>3. ASSUME NEW p \in Peers, SendRemove(p)
      PROVE  IInv' /\ allocated' = allocated
  <2>1. Core' /\ allocated' = allocated
        /\ deleting'["receive"] = deleting["receive"]
    BY <1>0, <1>3, TakeOutKeeps DEF SendRemove, IInv
  <2>2. Threads'
    BY <1>3, <2>1 DEF SendRemove, IInv, Threads
  <2>3. Events'
    BY <1>3 DEF SendRemove, IInv, Events
  <2> QED BY <2>1, <2>2, <2>3 DEF IInv
<1>4. ASSUME NEW p \in Peers, SendPostpone(p)
      PROVE  IInv' /\ allocated' = allocated
  <2>1. Core'
    BY <1>4 DEF SendPostpone, IInv, Core, CoreType, UsageAgrees, HeldIsAllocated,
      PendingIsOut, DeletingIsOut, DeletersDiffer, AllocatedIsOwned, Deleting,
      HoldersOf, peerVars
  <2> QED BY <1>4, <2>1 DEF SendPostpone, IInv, Threads, Events, peerVars
<1>5. ASSUME SendNextPhase PROVE IInv' /\ allocated' = allocated
  <2>1. Core'
    BY <1>5 DEF SendNextPhase, IInv, Core, CoreType, UsageAgrees, HeldIsAllocated,
      PendingIsOut, DeletingIsOut, DeletersDiffer, AllocatedIsOwned, Deleting,
      HoldersOf, peerVars
  <2>2. Threads' /\ Events'
    BY <1>5 DEF SendNextPhase, IInv, Threads, Events, peerVars
  <2> QED BY <1>5, <2>1, <2>2 DEF SendNextPhase, IInv, peerVars
<1> QED BY <1>1, <1>2, <1>3, <1>4, <1>5 DEF SendThread

-----------------------------------------------------------------------------
(* The receive thread.                                                     *)
LEMMA ReceiveThreadKeeps ==
  ASSUME IInv, ReceiveThread
  PROVE  IInv' /\ \A p \in allocated \ allocated' : m_usage'[p] = 0
<1>0. "send" \in Helpers /\ "send" \in Deleters /\ "receive" \in Deleters
      /\ "receive" \in Helpers /\ "process" \in Helpers
      /\ \A t \in AppThreads : t \in Helpers /\ t \notin {"send", "receive", "process"}
  BY DEF Helpers, Deleters
<1>1. ASSUME NEW p \in Peers, CreatePeer(p) PROVE IInv' /\ allocated \subseteq allocated'
  BY <1>1, CreatePeerKeeps
<1>2. ASSUME NEW p \in Peers, ReceiveFrom(p) PROVE IInv' /\ allocated' = allocated
  <2>1. Core' /\ allocated' = allocated
    BY <1>0, <1>2, GetKeeps DEF ReceiveFrom, IInv
  <2>2. Threads'
    BY <1>0, <1>2, <2>1 DEF ReceiveFrom, ReceiveIdle, GetPeer, IInv, Core, CoreType, Threads
  <2>3. Events'
    BY <1>2 DEF ReceiveFrom, IInv, Events
  <2> QED BY <2>1, <2>2, <2>3 DEF IInv
<1>3. ASSUME ProcessPacket PROVE IInv' /\ allocated' = allocated
  <2>0. helper["receive"] \in Peers
    BY <1>0, <1>3 DEF ProcessPacket, GetPeer, IInv, Core, CoreType
  <2>1. Core' /\ allocated' = allocated
    BY <1>0, <1>3, <2>0, GetKeeps DEF ProcessPacket, IInv
  <2>2. Threads'
    BY <1>0, <1>3, <2>1 DEF ProcessPacket, GetPeer, IInv, Core, CoreType, Threads
  <2>3. Events'
    BY <1>3 DEF ProcessPacket, IInv, Events
  <2> QED BY <2>1, <2>2, <2>3 DEF IInv
<1>4. ASSUME ProcessData \/ ProcessSilently
      PROVE  IInv' /\ \A p \in allocated \ allocated' : m_usage'[p] = 0
  <2>0. ReleasePeer("process") /\ UNCHANGED deleting
    BY <1>4 DEF ProcessData, ProcessSilently
  <2>1. Core' /\ allocated' \subseteq allocated
        /\ \A p \in allocated \ allocated' : m_usage'[p] = 0
    BY <1>0, <2>0, ReleaseKeeps DEF IInv
  <2>2. \A h \in Helpers : helper'[h] = IF h = "process" THEN None ELSE helper[h]
    BY <1>0, <2>0 DEF ReleasePeer, IInv, Core, CoreType
  <2>3. Threads'
    BY <1>0, <1>4, <2>1, <2>2 DEF ProcessData, ProcessSilently, IInv, Threads
  <2>4. Events'
    <3>1. helper["process"] \in Peers
      BY <1>0, <2>0 DEF ReleasePeer, IInv, Core, CoreType
    <3>2. CASE ProcessData
      BY <3>1, <3>2 DEF ProcessData, IInv, Events
    <3>3. CASE ProcessSilently
      BY <3>3 DEF ProcessSilently, IInv, Events
    <3> QED BY <1>4, <3>2, <3>3
  <2> QED BY <2>1, <2>3, <2>4 DEF IInv
<1>5. ASSUME ProcessDisco PROVE IInv' /\ allocated' = allocated
  <2>0. stage = "processing" /\ stage' = "disconnecting" /\ UNCHANGED helper
    BY <1>5 DEF ProcessDisco
  <2>1. helper["process"] \in Peers
    BY <1>0, <2>0 DEF IInv, Core, CoreType, Threads
  <2>2. Core' /\ allocated' = allocated /\ deleting'["send"] = deleting["send"]
    BY <1>0, <1>5, <2>1, TakeOutKeeps DEF ProcessDisco, IInv
  <2>3. Threads'
    BY <1>5, <2>0, <2>2 DEF ProcessDisco, IInv, Threads
  <2>4. Events'
    BY <1>5 DEF ProcessDisco, IInv, Events
  <2> QED BY <2>2, <2>3, <2>4 DEF IInv
<1>6. ASSUME PutData PROVE IInv' /\ allocated' = allocated
  <2>1. Core'
    BY <1>6 DEF PutData, IInv, Core, CoreType, UsageAgrees, HeldIsAllocated,
      PendingIsOut, DeletingIsOut, DeletersDiffer, AllocatedIsOwned, Deleting,
      HoldersOf, peerVars
  <2>2. Threads'
    BY <1>6 DEF PutData, IInv, Threads, peerVars
  <2>3. Events'
    <3>1. result \in Peers
      BY <1>6 DEF PutData, IInv, Events
    <3>2. m_event_queue' \in Seq(Event)
      BY <1>6, <3>1, EventAppended DEF PutData, IInv
    <3> QED BY <1>6, <3>2 DEF PutData, IInv, Events
  <2> QED BY <1>6, <2>1, <2>2, <2>3 DEF PutData, IInv, peerVars
<1>7. ASSUME ReceiveDone
      PROVE  IInv' /\ \A p \in allocated \ allocated' : m_usage'[p] = 0
  <2>0. ReleasePeer("receive") /\ UNCHANGED deleting
    BY <1>7 DEF ReceiveDone
  <2>1. Core' /\ allocated' \subseteq allocated
        /\ \A p \in allocated \ allocated' : m_usage'[p] = 0
    BY <1>0, <2>0, ReleaseKeeps DEF IInv
  <2>2. \A h \in Helpers : helper'[h] = IF h = "receive" THEN None ELSE helper[h]
    BY <1>0, <2>0 DEF ReleasePeer, IInv, Core, CoreType
  <2>3. Threads'
    BY <1>0, <1>7, <2>1, <2>2 DEF ReceiveDone, IInv, Threads
  <2>4. Events'
    BY <1>7 DEF ReceiveDone, IInv, Events
  <2> QED BY <2>1, <2>3, <2>4 DEF IInv
<1> QED BY <1>1, <1>2, <1>3, <1>4, <1>5, <1>6, <1>7 DEF ReceiveThread

(* The application and the destructor.                                     *)
LEMMA ApplicationKeeps ==
  ASSUME IInv, Application
  PROVE  IInv' /\ \A p \in allocated \ allocated' : m_usage'[p] = 0
<1>0. /\ "send" \in Helpers /\ "receive" \in Helpers /\ "process" \in Helpers
      /\ \A t \in AppThreads : t \in Helpers /\ t \notin {"send", "receive", "process"}
  BY DEF Helpers
<1>1. ASSUME NEW t \in AppThreads, NEW p \in Peers, AppAsk(t, p)
      PROVE  IInv' /\ allocated' = allocated
  <2>1. Core' /\ allocated' = allocated
    BY <1>0, <1>1, GetKeeps DEF AppAsk, IInv
  <2>2. Threads'
    BY <1>0, <1>1, <2>1 DEF AppAsk, GetPeer, IInv, Core, CoreType, Threads
  <2>3. Events'
    BY <1>1 DEF AppAsk, IInv, Events
  <2> QED BY <2>1, <2>2, <2>3 DEF IInv
<1>2. ASSUME NEW t \in AppThreads, AppDone(t)
      PROVE  IInv' /\ \A p \in allocated \ allocated' : m_usage'[p] = 0
  <2>1. /\ Core' /\ allocated' \subseteq allocated
        /\ \A p \in allocated \ allocated' : m_usage'[p] = 0
    BY <1>0, <1>2, ReleaseKeeps DEF AppDone, IInv
  <2>2. \A h \in Helpers : helper'[h] = IF h = t THEN None ELSE helper[h]
    BY <1>0, <1>2 DEF AppDone, ReleasePeer, IInv, Core, CoreType
  <2>3. Threads'
    BY <1>0, <1>2, <2>1, <2>2 DEF AppDone, IInv, Threads
  <2>4. Events'
    BY <1>2 DEF AppDone, IInv, Events
  <2> QED BY <2>1, <2>3, <2>4 DEF IInv
<1>3. ASSUME AppReceive \/ Stop PROVE IInv' /\ allocated' = allocated
  <2>1. UNCHANGED <<peerVars, helper, deleting>>
    BY <1>3 DEF AppReceive, Stop
  <2>2. Core'
    BY <2>1 DEF IInv, Core, CoreType, UsageAgrees, HeldIsAllocated,
      PendingIsOut, DeletingIsOut, DeletersDiffer, AllocatedIsOwned, Deleting,
      HoldersOf, peerVars
  <2>3. Threads'
    BY <1>3 DEF AppReceive, Stop, IInv, Threads, peerVars
  <2>4. Events'
    <3>1. CASE AppReceive
      <4>1. Head(m_event_queue) \in Event /\ Tail(m_event_queue) \in Seq(Event)
        BY <3>1 DEF AppReceive, IInv, Events
      <4> QED BY <3>1, <4>1 DEF AppReceive, IInv, Events
    <3>2. CASE Stop
      BY <3>2 DEF Stop, IInv, Events
    <3> QED BY <1>3, <3>1, <3>2
  <2> QED BY <2>1, <2>2, <2>3, <2>4 DEF IInv, peerVars
<1>4. ASSUME DeletePeers
      PROVE  IInv' /\ \A p \in allocated \ allocated' : m_usage'[p] = 0
  BY <1>4, DeletePeersKeeps
<1> QED BY <1>1, <1>2, <1>3, <1>4 DEF Application

-----------------------------------------------------------------------------
LEMMA InitEstablishes == Init => IInv
<1> SUFFICES ASSUME Init PROVE IInv
  OBVIOUS
<1>1. \A p \in Peers : HoldersOf(p) = {}
  BY DEF Init, HoldersOf
<1>2. UsageAgrees
  BY <1>1, FS_EmptySet DEF Init, UsageAgrees
<1>3. Core
  BY <1>2 DEF Init, Core, CoreType, HeldIsAllocated, PendingIsOut, DeletingIsOut,
              DeletersDiffer, AllocatedIsOwned, Deleting
<1>4. Threads
  BY DEF Init, Threads, Helpers, Deleters
<1>5. Events
  BY DEF Init, Events
<1> QED BY <1>3, <1>4, <1>5 DEF IInv

LEMMA StepPreserves ==
  ASSUME IInv, [Next]_vars
  PROVE  IInv' /\ \A p \in allocated \ allocated' : m_usage'[p] = 0
<1>1. CASE UNCHANGED vars
  <2>1. Core'
    BY <1>1 DEF vars, peerVars, IInv, Core, CoreType, UsageAgrees, HeldIsAllocated,
      PendingIsOut, DeletingIsOut, DeletersDiffer, AllocatedIsOwned, Deleting,
      HoldersOf
  <2> QED BY <1>1, <2>1 DEF vars, peerVars, IInv, Threads, Events
<1> QED BY <1>1, SendThreadKeeps, ReceiveThreadKeeps, ApplicationKeeps,
           DeletePeerStepKeeps DEF Next

LEMMA Invariant == Spec => []IInv
BY InitEstablishes, StepPreserves, PTL DEF Spec

(* The types of the variables.                                             *)
THEOREM TypeCorrect == Spec => []TypeOK
<1>1. IInv => TypeOK
  BY DEF IInv, Core, CoreType, Threads, Events, TypeOK
<1> QED BY <1>1, Invariant, PTL

(* No PeerHelper, and no thread inside deletePeer, ever refers to a peer   *)
(* that has been deleted.                                                  *)
THEOREM NeverUsedAfterDelete == Spec => []NoUseAfterDelete
<1>1. IInv => NoUseAfterDelete
  BY DEF IInv, Core, HeldIsAllocated, DeletingIsOut, Deleting, NoUseAfterDelete
<1> QED BY <1>1, Invariant, PTL

(* m_usage counts the handles.                                             *)
THEOREM UsageAlwaysCounts == Spec => []UsageIsHandles
<1>1. IInv => UsageIsHandles
  BY DEF IInv, Core, CoreType, UsageAgrees, UsageIsHandles
<1> QED BY <1>1, Invariant, PTL

(* The check of ~Peer never fails.                                         *)
THEOREM NeverReferenceCountingFailure == Spec => NoReferenceCountingFailure
<1>1. IInv /\ [Next]_vars => [\A p \in allocated \ allocated' : m_usage'[p] = 0]_vars
  BY StepPreserves
<1> QED BY <1>1, Invariant, PTL DEF Spec, NoReferenceCountingFailure

(* Nothing leaks: what the destructor does not find in the map is gone.    *)
THEOREM NothingEverLeft == Spec => []NothingIsLeft
<1>1. IInv => NothingIsLeft
  BY DEF IInv, Threads, NothingIsLeft
<1> QED BY <1>1, Invariant, PTL

(* All three together: a peer is allocated exactly as long as somebody may *)
(* use it, and no longer than the connection.                              *)
THEOREM PeersAlwaysCounted == Spec => []PeersAreCounted
<1>1. NoUseAfterDelete /\ UsageIsHandles /\ NothingIsLeft => PeersAreCounted
  BY DEF PeersAreCounted
<1> QED
  BY <1>1, NeverUsedAfterDelete, UsageAlwaysCounts, NothingEverLeft, PTL

-----------------------------------------------------------------------------
(* The events.  Of a peer that is out of the map either the application is *)
(* told, or a thread is about to queue that event; and the receive thread  *)
(* may be at one more packet of it, which it began before.                 *)
BeingTold(p) == \E t \in Deleters : deleting[t] = [peer |-> p, step |-> "event"]

Reporting(p) == result = p \/ (stage = "processing" /\ helper["process"] = p)

InOrder(p) ==
  /\ \A i \in EventsOf(p) :
       EventLog[i].type = "PEER_ADDED" <=> \A j \in EventsOf(p) : i <= j
  /\ \A i, j \in RemovalsOf(p) : i = j
  /\ \A i \in RemovalsOf(p), j, k \in EventsOf(p) : i < j /\ i < k => j = k

Story(p) ==
  /\ InOrder(p)
  /\ EventsOf(p) # {} <=> p \in created
  /\ \A i \in RemovalsOf(p), j \in EventsOf(p) : i < j => ~Reporting(p)
  /\ RemovalsOf(p) # {} => p \notin m_peers /\ ~BeingTold(p)
  /\ p \in created \ m_peers /\ connection # "gone" => RemovalsOf(p) # {} \/ BeingTold(p)
  /\ Reporting(p) => p \in created

Stories ==
  /\ \A p \in Peers : Story(p)
  /\ result # None => stage \in {"done", "idle"} /\ connection # "gone"

LEMMA EventsAreAt ==
  ASSUME Events, NEW p
  PROVE  /\ EventLog \in Seq(Event) /\ Len(EventLog) \in Nat
         /\ DOMAIN EventLog = 1 .. Len(EventLog)
         /\ EventsOf(p) \subseteq 1 .. Len(EventLog) /\ RemovalsOf(p) \subseteq EventsOf(p)
<1>1. EventLog \in Seq(Event)
  BY DEF Events, EventLog
<1> QED
  BY <1>1 DEF EventsOf, RemovalsOf

(* An event is put at the end of the log.                                  *)
LEMMA LogGrows ==
  ASSUME Events, NEW e \in Event, m_event_queue' = Append(m_event_queue, e), told' = told,
         NEW p
  PROVE  LET n == Len(EventLog) + 1
         IN  /\ \A i \in 1 .. Len(EventLog) : EventLog'[i] = EventLog[i]
             /\ EventLog'[n] = e
             /\ EventsOf(p)' = EventsOf(p) \union (IF e.peer = p THEN {n} ELSE {})
<1> DEFINE n == Len(EventLog) + 1
<1>0. /\ told \in Seq(Event) /\ m_event_queue \in Seq(Event)
      /\ EventLog \in Seq(Event) /\ Len(EventLog) \in Nat /\ n \in Nat
  BY EventsAreAt DEF Events
<1>1. EventLog' = Append(EventLog, e)
  BY <1>0 DEF EventLog
<1>2. /\ \A i \in 1 .. Len(EventLog) : EventLog'[i] = EventLog[i]
      /\ EventLog'[n] = e /\ DOMAIN EventLog' = 1 .. n
  BY <1>0, <1>1
<1>3. EventsOf(p)' = {i \in 1 .. n : EventLog'[i].peer = p}
  BY <1>2 DEF EventsOf
<1>4. EventsOf(p) = {i \in 1 .. Len(EventLog) : EventLog[i].peer = p}
  BY <1>0 DEF EventsOf
<1>5. 1 .. n = (1 .. Len(EventLog)) \union {n}
  BY <1>0
<1>6. EventsOf(p)' = EventsOf(p) \union (IF e.peer = p THEN {n} ELSE {})
  BY <1>2, <1>3, <1>4, <1>5
<1> QED
  BY <1>2, <1>6

(* A peer of which no event comes: what else may change of it.             *)
SameEvents(p) ==
  /\ EventsOf(p)' = EventsOf(p)
  /\ \A i \in EventsOf(p) : EventLog'[i] = EventLog[i]

LEMMA StoryGoesOn ==
  ASSUME NEW p \in Peers, Story(p), SameEvents(p), p \in created' <=> p \in created,
         p \in m_peers' => p \in m_peers,
         p \in m_peers /\ p \notin m_peers' => BeingTold(p)' \/ connection' = "gone",
         BeingTold(p)' => BeingTold(p) \/ p \in m_peers,
         BeingTold(p) => BeingTold(p)',
         Reporting(p)' => Reporting(p) \/ p \in m_peers,
         connection = "gone" => connection' = "gone", m_peers \subseteq created
  PROVE  Story(p)'
<1>1. RemovalsOf(p)' = RemovalsOf(p)
  BY DEF SameEvents, RemovalsOf
<1>2. RemovalsOf(p) \subseteq EventsOf(p)
  BY DEF RemovalsOf
<1>3. InOrder(p)'
  <2>1. InOrder(p)
    BY DEF Story
  <2>2. \A i \in EventsOf(p)' :
          EventLog'[i].type = "PEER_ADDED" <=> \A j \in EventsOf(p)' : i <= j
    BY <2>1 DEF InOrder, SameEvents
  <2>3. /\ \A i, j \in RemovalsOf(p)' : i = j
        /\ \A i \in RemovalsOf(p)', j, k \in EventsOf(p)' : i < j /\ i < k => j = k
    BY <2>1, <1>1 DEF InOrder, SameEvents
  <2> QED
    BY <2>2, <2>3 DEF InOrder
<1>4. EventsOf(p)' # {} <=> p \in created'
  BY DEF Story, SameEvents
<1>5. \A i \in RemovalsOf(p)', j \in EventsOf(p)' : i < j => ~Reporting(p)'
  BY <1>1 DEF Story, SameEvents
<1>6. RemovalsOf(p)' # {} => p \notin m_peers' /\ ~BeingTold(p)'
  BY <1>1 DEF Story
<1>7. p \in created' \ m_peers' /\ connection' # "gone" => RemovalsOf(p)' # {} \/ BeingTold(p)'
  BY <1>1 DEF Story
<1>8. Reporting(p)' => p \in created'
  BY DEF Story
<1> QED
  BY <1>3, <1>4, <1>5, <1>6, <1>7, <1>8 DEF Story

(* createPeer tells of a new peer.                                         *)
LEMMA CreatePeerTells ==
  ASSUME IInv, Stories, NEW q \in Peers, CreatePeer(q)
  PROVE  Stories'
<1> DEFINE n == Len(EventLog) + 1
<1>1. Events /\ m_peers \subseteq created /\ allocated \subseteq created
  BY DEF IInv, Core, CoreType
<1>2. [type |-> "PEER_ADDED", peer |-> q] \in Event /\ told' = told
  BY DEF Event, CreatePeer
<1>3. \A p \in Peers : /\ \A i \in 1 .. Len(EventLog) : EventLog'[i] = EventLog[i]
                       /\ EventLog'[n] = [type |-> "PEER_ADDED", peer |-> q]
                       /\ EventsOf(p)' = EventsOf(p) \union (IF q = p THEN {n} ELSE {})
                       /\ EventsOf(p) \subseteq 1 .. Len(EventLog)
  BY <1>1, <1>2, LogGrows, EventsAreAt DEF CreatePeer
<1>4. \A p \in Peers : /\ BeingTold(p)' <=> BeingTold(p)
                       /\ Reporting(p)' <=> Reporting(p)
  BY DEF CreatePeer, BeingTold, Reporting
<1>5. ASSUME NEW p \in Peers, p # q PROVE Story(p)'
  <2>1. SameEvents(p)
    BY <1>3, <1>5 DEF SameEvents
  <2>2. /\ p \in created' <=> p \in created
        /\ p \in m_peers' <=> p \in m_peers
        /\ connection' = connection
    BY <1>5 DEF CreatePeer
  <2> QED
    BY <1>1, <1>4, <2>1, <2>2, StoryGoesOn DEF Stories
<1>6. Story(q)'
  <2>1. q \notin created /\ q \in created' /\ q \in m_peers' /\ Story(q)
    BY DEF CreatePeer, Stories
  <2>2. EventsOf(q)' = {n} /\ n \in Nat
    BY <1>1, <1>3, <2>1, EventsAreAt DEF Story
  <2>3. RemovalsOf(q)' = {}
    BY <1>3, <2>2 DEF RemovalsOf
  <2>4. InOrder(q)'
    BY <1>3, <2>2, <2>3 DEF InOrder
  <2> QED
    BY <2>1, <2>2, <2>3, <2>4 DEF Story
<1>7. result' = result /\ stage' = stage /\ connection' = connection
  BY DEF CreatePeer
<1> QED
  BY <1>5, <1>6, <1>7 DEF Stories

(* deletePeer tells of one that is out of the map, and nobody else does.   *)
LEMMA PutRemovedEventTells ==
  ASSUME IInv, Stories, NEW t \in Deleters, PutRemovedEvent(t)
  PROVE  Stories'
<1> DEFINE n == Len(EventLog) + 1
<1>0. PICK q \in Peers : deleting[t] = [peer |-> q, step |-> "event"]
  BY DEF IInv, Core, CoreType, PutRemovedEvent, NotDeleting
<1>1. Events /\ m_peers \subseteq created /\ allocated \subseteq created /\ Deleting(t)
  BY <1>0 DEF IInv, Core, CoreType, Deleting, NotDeleting
<1>2. [type |-> "PEER_REMOVED", peer |-> q] \in Event /\ told' = told
  BY DEF Event, PutRemovedEvent
<1>3. \A p \in Peers : /\ \A i \in 1 .. Len(EventLog) : EventLog'[i] = EventLog[i]
                       /\ EventLog'[n] = [type |-> "PEER_REMOVED", peer |-> q]
                       /\ EventsOf(p)' = EventsOf(p) \union (IF q = p THEN {n} ELSE {})
                       /\ EventsOf(p) \subseteq 1 .. Len(EventLog)
  BY <1>0, <1>1, <1>2, LogGrows, EventsAreAt DEF PutRemovedEvent
<1>4. \A s \in Deleters :
        deleting'[s] = IF s = t THEN [peer |-> q, step |-> "drop"] ELSE deleting[s]
  BY <1>0 DEF IInv, Core, CoreType, PutRemovedEvent
<1>5. \A p \in Peers : p # q => (BeingTold(p)' <=> BeingTold(p))
  BY <1>0, <1>4 DEF BeingTold
<1>6. BeingTold(q) /\ ~BeingTold(q)'
  <2>1. BeingTold(q)
    BY <1>0 DEF BeingTold
  <2>2. ASSUME NEW s \in Deleters, s # t PROVE deleting[s] # [peer |-> q, step |-> "event"]
    BY <1>0, <1>1, <2>2 DEF IInv, Core, DeletersDiffer, Deleting, NotDeleting
  <2> QED
    BY <1>4, <2>1, <2>2 DEF BeingTold
<1>7. \A p \in Peers : Reporting(p)' <=> Reporting(p)
  BY DEF PutRemovedEvent, Reporting
<1>8. UNCHANGED <<created, m_peers, connection, result, stage>>
  BY DEF PutRemovedEvent, peerVars
<1>9. ASSUME NEW p \in Peers, p # q PROVE Story(p)'
  <2>1. SameEvents(p)
    BY <1>3, <1>9 DEF SameEvents
  <2> QED
    BY <1>1, <1>5, <1>7, <1>8, <1>9, <2>1, StoryGoesOn DEF Stories
<1>10. Story(q)'
  <2>1. q \in created /\ q \notin m_peers
    BY <1>0, <1>1 DEF IInv, Core, DeletingIsOut
  <2>2. Story(q) /\ RemovalsOf(q) = {} /\ EventsOf(q) # {}
    BY <1>6, <2>1 DEF Stories, Story
  <2>3. /\ EventsOf(q)' = EventsOf(q) \union {n} /\ n \in Nat
        /\ \A i \in EventsOf(q) : i \in Nat /\ i < n /\ EventLog'[i] = EventLog[i]
    BY <1>1, <1>3, EventsAreAt
  <2>4. RemovalsOf(q)' = {n}
    BY <1>3, <2>2, <2>3 DEF RemovalsOf
  <2>5. InOrder(q)'
    <3>1. \A i \in EventsOf(q)' :
            EventLog'[i].type = "PEER_ADDED" <=> \A j \in EventsOf(q)' : i <= j
      <4>1. InOrder(q)
        BY <2>2 DEF Story
      <4>2. ASSUME NEW i \in EventsOf(q)
            PROVE  EventLog'[i].type = "PEER_ADDED" <=> \A j \in EventsOf(q)' : i <= j
        BY <2>3, <4>1 DEF InOrder
      <4>3. EventLog'[n].type # "PEER_ADDED" /\ ~ \A j \in EventsOf(q)' : n <= j
        BY <1>3, <2>2, <2>3
      <4> QED
        BY <2>3, <4>2, <4>3
    <3>2. \A j \in EventsOf(q)' : ~(n < j)
      BY <2>3
    <3> QED
      BY <2>4, <3>1, <3>2 DEF InOrder
  <2>6. \A i \in RemovalsOf(q)', j \in EventsOf(q)' : ~(i < j)
    BY <2>3, <2>4
  <2>7. Reporting(q)' => q \in created'
    BY <1>7, <1>8, <2>2 DEF Story
  <2> QED
    BY <1>6, <1>8, <2>1, <2>2, <2>3, <2>4, <2>5, <2>6, <2>7 DEF Story
<1> QED
  BY <1>8, <1>9, <1>10 DEF Stories

(* The packet the receive thread was at.                                   *)
LEMMA PutDataTells ==
  ASSUME IInv, Stories, PutData
  PROVE  Stories'
<1> DEFINE n == Len(EventLog) + 1
<1>0. PICK q \in Peers : q = result /\ q # None
  BY DEF IInv, Events, PutData
<1>1. Events /\ m_peers \subseteq created /\ stage \in {"done", "idle"} /\ Reporting(q)
  BY <1>0 DEF IInv, Core, CoreType, Stories, Reporting
<1>2. [type |-> "DATA_RECEIVED", peer |-> q] \in Event /\ told' = told
  BY DEF Event, PutData
<1>3. \A p \in Peers : /\ \A i \in 1 .. Len(EventLog) : EventLog'[i] = EventLog[i]
                       /\ EventLog'[n] = [type |-> "DATA_RECEIVED", peer |-> q]
                       /\ EventsOf(p)' = EventsOf(p) \union (IF q = p THEN {n} ELSE {})
                       /\ EventsOf(p) \subseteq 1 .. Len(EventLog)
  BY <1>0, <1>1, <1>2, LogGrows, EventsAreAt DEF PutData
<1>4. UNCHANGED <<created, m_peers, connection, stage, deleting>> /\ result' = None
  BY DEF PutData, peerVars
<1>5. \A p \in Peers : BeingTold(p)' <=> BeingTold(p)
  BY <1>4 DEF BeingTold
<1>6. \A p \in Peers : ~Reporting(p)'
  BY <1>1, <1>4 DEF Reporting
<1>7. ASSUME NEW p \in Peers, p # q PROVE Story(p)'
  <2>1. SameEvents(p)
    BY <1>3, <1>7 DEF SameEvents
  <2> QED
    BY <1>1, <1>4, <1>5, <1>6, <2>1, StoryGoesOn DEF Stories
<1>8. Story(q)'
  <2>1. Story(q) /\ InOrder(q) /\ q \in created /\ EventsOf(q) # {}
    BY <1>1 DEF Stories, Story
  <2>2. /\ EventsOf(q)' = EventsOf(q) \union {n} /\ n \in Nat
        /\ \A i \in EventsOf(q) : i \in Nat /\ i < n /\ EventLog'[i] = EventLog[i]
    BY <1>1, <1>3, EventsAreAt
  <2>3. RemovalsOf(q)' = RemovalsOf(q) /\ RemovalsOf(q) \subseteq EventsOf(q)
    BY <1>3, <2>2 DEF RemovalsOf
  <2>4. InOrder(q)'
    <3>1. \A i \in EventsOf(q)' :
            EventLog'[i].type = "PEER_ADDED" <=> \A j \in EventsOf(q)' : i <= j
      <4>1. ASSUME NEW i \in EventsOf(q)
            PROVE  EventLog'[i].type = "PEER_ADDED" <=> \A j \in EventsOf(q)' : i <= j
        BY <2>1, <2>2 DEF InOrder
      <4>2. EventLog'[n].type # "PEER_ADDED" /\ ~ \A j \in EventsOf(q)' : n <= j
        BY <1>3, <2>1, <2>2
      <4> QED
        BY <2>2, <4>1, <4>2
    <3>2. \A i \in RemovalsOf(q), j \in EventsOf(q) : ~(i < j)
      BY <1>1, <2>1 DEF Story
    <3>3. \A i \in RemovalsOf(q), j, k \in EventsOf(q)' : i < j /\ i < k => j = k
      BY <2>2, <3>2
    <3> QED
      BY <2>1, <2>3, <3>1, <3>3 DEF InOrder
  <2>5. EventsOf(q)' # {} /\ (RemovalsOf(q)' # {} => q \notin m_peers /\ ~BeingTold(q))
    BY <2>1, <2>2, <2>3 DEF Story
  <2> QED
    BY <1>4, <1>5, <1>6, <2>1, <2>3, <2>4, <2>5 DEF Story
<1> QED
  BY <1>1, <1>4, <1>7, <1>8 DEF Stories

(* The rest of deletePeer: out of the map, and about to be told.           *)
LEMMA TakeOutTells ==
  ASSUME IInv, Stories, NEW t \in Deleters, NEW q \in Peers, TakeOut(t, q),
         UNCHANGED <<m_event_queue, told, result, connection>>,
         stage' \in {stage, "disconnecting"}, helper' = helper,
         stage' # stage => stage = "processing"
  PROVE  Stories'
<1>1. m_peers \subseteq created /\ created' = created /\ EventLog' = EventLog
  BY DEF IInv, Core, CoreType, TakeOut, EventLog
<1>2. \A p \in Peers : SameEvents(p)
  BY <1>1 DEF SameEvents, EventsOf
<1>3. q \in m_peers => \A s \in Deleters :
        deleting'[s] = IF s = t THEN [peer |-> q, step |-> "event"] ELSE deleting[s]
  BY DEF IInv, Core, CoreType, TakeOut
<1>4. q \notin m_peers => deleting' = deleting /\ m_peers' = m_peers
  BY DEF TakeOut
<1>5. \A p \in Peers :
        /\ BeingTold(p) => BeingTold(p)'
        /\ BeingTold(p)' => BeingTold(p) \/ p \in m_peers
        /\ p \in m_peers /\ p \notin m_peers' => BeingTold(p)'
  <2>1. CASE q \in m_peers
    <3>1. deleting[t] # [peer |-> q, step |-> "event"] /\ deleting[t] = NotDeleting
      BY DEF TakeOut, NotDeleting
    <3>2. \A p \in Peers : deleting[t] # [peer |-> p, step |-> "event"]
      BY <3>1 DEF NotDeleting
    <3>3. \A p \in Peers : p \in m_peers /\ p \notin m_peers' => p = q
      BY DEF TakeOut
    <3>4. ASSUME NEW p \in Peers PROVE BeingTold(p)' <=> BeingTold(p) \/ p = q
      <4>1. [peer |-> p, step |-> "event"] = [peer |-> q, step |-> "event"] <=> p = q
        OBVIOUS
      <4>2. BeingTold(p)' <=>
              \/ p = q
              \/ \E s \in Deleters : s # t /\ deleting[s] = [peer |-> p, step |-> "event"]
        BY <1>3, <2>1, <4>1 DEF BeingTold
      <4>3. BeingTold(p) <=>
              \E s \in Deleters : s # t /\ deleting[s] = [peer |-> p, step |-> "event"]
        BY <3>2 DEF BeingTold
      <4> QED
        BY <4>2, <4>3
    <3> QED
      BY <2>1, <3>3, <3>4
  <2>2. CASE q \notin m_peers
    BY <1>4, <2>2 DEF BeingTold
  <2> QED
    BY <2>1, <2>2
<1>6. \A p \in Peers : Reporting(p)' => Reporting(p)
  BY DEF Reporting
<1>7. m_peers' \subseteq m_peers
  BY DEF TakeOut
<1>8. ASSUME NEW p \in Peers PROVE Story(p)'
  BY <1>1, <1>2, <1>5, <1>6, <1>7, StoryGoesOn DEF Stories
<1>9. result' # None => stage' \in {"done", "idle"} /\ connection' # "gone"
  BY DEF Stories
<1> QED
  BY <1>8, <1>9 DEF Stories

(* A step that neither queues an event nor changes the map: of peers in it *)
(* the receive thread may begin with a packet.                             *)
Quiet ==
  /\ EventLog' = EventLog
  /\ UNCHANGED <<m_peers, created>>
  /\ \A p \in Peers : BeingTold(p)' <=> BeingTold(p)
  /\ \A p \in Peers : Reporting(p)' => Reporting(p) \/ p \in m_peers
  /\ connection' = connection \/ (connection = "open" /\ connection' = "stopping")

LEMMA QuietTells ==
  ASSUME IInv, Stories, Quiet,
         result' # None => stage' \in {"done", "idle"} /\ connection # "gone"
  PROVE  Stories'
<1>1. m_peers \subseteq created
  BY DEF IInv, Core, CoreType
<1>2. \A p \in Peers : SameEvents(p)
  BY DEF SameEvents, EventsOf, Quiet
<1>3. ASSUME NEW p \in Peers PROVE Story(p)'
  BY <1>1, <1>2, StoryGoesOn DEF Stories, Quiet
<1> QED
  BY <1>3 DEF Stories, Quiet

LEMMA SendThreadTells ==
  ASSUME IInv, Stories, SendThread
  PROVE  Stories'
<1>1. ASSUME NEW p \in Peers, SendRemove(p) PROVE Stories'
  <2>1. TakeOut("send", p) /\ "send" \in Deleters
    BY <1>1 DEF SendRemove, Deleters
  <2> QED
    BY <1>1, <2>1, TakeOutTells DEF SendRemove
<1>2. ASSUME \/ \E p \in Peers : SendVisit(p) \/ SendPostpone(p)
             \/ SendCollect \/ SendMark \/ SendLeave \/ SendNextPhase
      PROVE  Stories'
  <2>1. /\ UNCHANGED <<m_event_queue, told, created, m_peers, deleting, connection, result, stage>>
        /\ "send" # "process" /\ "process" \in Helpers /\ "send" \in Helpers
    BY <1>2 DEF SendVisit, SendPostpone, SendCollect, SendMark, SendLeave, SendNextPhase,
         GetPeer, ReleasePeer, peerVars, Helpers
  <2>2. helper'["process"] = helper["process"]
    BY <1>2, <2>1 DEF SendVisit, SendPostpone, SendCollect, SendMark, SendLeave, SendNextPhase,
         GetPeer, ReleasePeer, peerVars, IInv, Core, CoreType
  <2>3. Quiet
    BY <2>1, <2>2 DEF Quiet, EventLog, BeingTold, Reporting
  <2> QED
    BY <2>1, <2>3, QuietTells DEF Stories
<1> QED
  BY <1>1, <1>2 DEF SendThread

LEMMA ReceiveThreadTells ==
  ASSUME IInv, Stories, ReceiveThread
  PROVE  Stories'
<1>0. "receive" \in Helpers /\ "process" \in Helpers /\ "receive" \in Deleters
  BY DEF Helpers, Deleters
<1>1. CASE ProcessDisco
  <2>1. stage = "processing" /\ TakeOut("receive", helper["process"])
    BY <1>1 DEF ProcessDisco
  <2>2. helper["process"] \in Peers
    BY <1>0, <2>1 DEF IInv, Core, CoreType, Threads
  <2> QED
    BY <1>0, <1>1, <2>1, <2>2, TakeOutTells DEF ProcessDisco
<1>2. ASSUME NEW p \in Peers, ReceiveFrom(p) PROVE Stories'
  <2>1. /\ UNCHANGED <<m_event_queue, told, created, m_peers, deleting, connection, result>>
        /\ stage' = "got" /\ result = None
    BY <1>2 DEF ReceiveFrom, ReceiveIdle, GetPeer
  <2>2. Quiet
    BY <2>1 DEF Quiet, EventLog, BeingTold, Reporting
  <2> QED
    BY <2>1, <2>2, QuietTells
<1>3. CASE ProcessPacket
  <2>1. /\ UNCHANGED <<m_event_queue, told, created, m_peers, deleting, connection, result>>
        /\ stage = "got" /\ helper["receive"] \in m_peers
        /\ helper'["process"] = helper["receive"]
    BY <1>0, <1>3 DEF ProcessPacket, GetPeer, IInv, Core, CoreType
  <2>2. Quiet
    BY <2>1 DEF Quiet, EventLog, BeingTold, Reporting
  <2>3. result' = None
    BY <2>1 DEF Stories
  <2> QED
    BY <2>1, <2>2, <2>3, QuietTells
<1>4. CASE ProcessData
  <2>1. /\ UNCHANGED <<m_event_queue, told, created, m_peers, deleting, connection>>
        /\ stage = "processing" /\ stage' = "done" /\ result' = helper["process"]
        /\ helper["process"] # None
    BY <1>4 DEF ProcessData, ReleasePeer
  <2>2. Quiet
    BY <2>1 DEF Quiet, EventLog, BeingTold, Reporting
  <2>3. connection # "gone"
    BY <1>0, <2>1 DEF IInv, Core, HeldIsAllocated, Threads
  <2> QED
    BY <2>1, <2>2, <2>3, QuietTells
<1>5. CASE ProcessSilently \/ ReceiveDone
  <2>1. /\ UNCHANGED <<m_event_queue, told, created, m_peers, deleting, connection, result>>
        /\ stage' \in {"done", "idle"}
    BY <1>5 DEF ProcessSilently, ReceiveDone, ReleasePeer
  <2>2. Quiet
    BY <2>1 DEF Quiet, EventLog, BeingTold, Reporting
  <2> QED
    BY <2>1, <2>2, QuietTells DEF Stories
<1> QED
  BY <1>1, <1>2, <1>3, <1>4, <1>5, CreatePeerTells, PutDataTells DEF ReceiveThread

(* An event that is taken stays in the log.                                *)
LEMMA TakenStaysInLog ==
  ASSUME Events, AppReceive
  PROVE  EventLog' = EventLog
<1>1. told \in Seq(Event) /\ m_event_queue \in Seq(Event) /\ m_event_queue # <<>>
  BY DEF Events, AppReceive
<1> DEFINE h == Head(m_event_queue)
           r == Tail(m_event_queue)
<1>2. h \in Event /\ r \in Seq(Event) /\ m_event_queue = <<h>> \o r
  BY <1>1
<1>3. told' = Append(told, h) /\ m_event_queue' = r
  BY DEF AppReceive
<1> HIDE DEF h, r
<1>4. Append(told, h) \o r = told \o (<<h>> \o r)
  BY <1>1, <1>2
<1> QED
  BY <1>2, <1>3, <1>4 DEF EventLog

LEMMA ApplicationTells ==
  ASSUME IInv, Stories, Application
  PROVE  Stories'
<1>1. ASSUME \/ \E t \in AppThreads : AppDone(t) \/ \E p \in Peers : AppAsk(t, p)
             \/ AppReceive \/ Stop
      PROVE  Stories'
  <2>1. /\ UNCHANGED <<created, m_peers, deleting, result, stage>>
        /\ connection' = connection \/ (connection = "open" /\ connection' = "stopping")
    BY <1>1 DEF AppDone, AppAsk, AppReceive, Stop, GetPeer, ReleasePeer, peerVars
  <2>2. EventLog' = EventLog
    <3>1. CASE AppReceive
      BY <3>1, TakenStaysInLog DEF IInv
    <3>2. CASE ~AppReceive
      BY <1>1, <3>2 DEF AppDone, AppAsk, Stop, EventLog
    <3> QED
      BY <3>1, <3>2
  <2>3. helper'["process"] = helper["process"]
    BY <1>1 DEF AppDone, AppAsk, AppReceive, Stop, GetPeer, ReleasePeer, IInv, Core, CoreType,
         Helpers
  <2>4. Quiet
    BY <2>1, <2>2, <2>3 DEF Quiet, BeingTold, Reporting
  <2> QED
    BY <2>1, <2>4, QuietTells DEF Stories
<1>2. CASE DeletePeers
  <2>1. /\ m_peers' = {} /\ connection' = "gone" /\ result = None
        /\ UNCHANGED <<created, m_event_queue, told, deleting, result, stage, helper>>
    BY <1>2 DEF DeletePeers, ReceiveIdle
  <2>2. \A p \in Peers : SameEvents(p)
    BY <2>1 DEF SameEvents, EventsOf, EventLog
  <2>3. \A p \in Peers : /\ BeingTold(p)' <=> BeingTold(p)
                         /\ Reporting(p)' <=> Reporting(p)
    BY <2>1 DEF BeingTold, Reporting
  <2>4. m_peers \subseteq created
    BY DEF IInv, Core, CoreType
  <2>5. ASSUME NEW p \in Peers PROVE Story(p)'
    BY <2>1, <2>2, <2>3, <2>4, StoryGoesOn DEF Stories
  <2> QED
    BY <2>1, <2>5 DEF Stories
<1> QED
  BY <1>1, <1>2 DEF Application

LEMMA DropTells ==
  ASSUME IInv, Stories, NEW t \in Deleters, Drop(t)
  PROVE  Stories'
<1>1. UNCHANGED <<created, m_peers, m_event_queue, told, result, stage, helper, connection>>
  BY DEF Drop
<1>2. \A s \in Deleters :
        deleting'[s] = IF s = t THEN NotDeleting ELSE deleting[s]
  BY DEF IInv, Core, CoreType, Drop
<1>3. \A p \in Peers : BeingTold(p)' <=> BeingTold(p)
  <2>1. deleting[t].step = "drop"
    BY DEF Drop
  <2>2. \A p \in Peers : /\ deleting[t] # [peer |-> p, step |-> "event"]
                         /\ NotDeleting # [peer |-> p, step |-> "event"]
    BY <2>1 DEF NotDeleting
  <2> QED
    BY <1>2, <2>2 DEF BeingTold
<1>4. Quiet
  BY <1>1, <1>3 DEF Quiet, EventLog, Reporting
<1> QED
  BY <1>1, <1>4, QuietTells DEF Stories

LEMMA InitTells == Init => Stories
<1> SUFFICES ASSUME Init PROVE Stories
  OBVIOUS
<1>1. EventLog = <<>>
  BY DEF Init, EventLog
<1>2. \A p \in Peers : EventsOf(p) = {} /\ RemovalsOf(p) = {}
  BY <1>1 DEF EventsOf, RemovalsOf
<1>3. \A p \in Peers : ~Reporting(p)
  BY DEF Init, Reporting
<1>4. \A p \in Peers : InOrder(p)
  BY <1>2 DEF InOrder
<1> QED
  BY <1>2, <1>3, <1>4 DEF Init, Stories, Story

LEMMA StepTells ==
  ASSUME IInv, Stories, [Next]_vars
  PROVE  Stories'
<1>1. CASE UNCHANGED vars
  <2>1. Quiet /\ UNCHANGED <<result, stage, connection>>
    BY <1>1 DEF vars, peerVars, Quiet, EventLog, BeingTold, Reporting
  <2> QED
    BY <2>1, QuietTells DEF Stories
<1>2. CASE \E t \in Deleters : DeletePeerStep(t)
  BY <1>2, PutRemovedEventTells, DropTells DEF DeletePeerStep
<1> QED
  BY <1>1, <1>2, SendThreadTells, ReceiveThreadTells, ApplicationTells DEF Next

(* What the application is told of a peer is in order: that it is there    *)
(* first, that it is gone once, with at most one packet after that; and    *)
(* while the connection is open it has been told of exactly those that are *)
(* gone, or a thread is about to tell it.                                  *)
THEOREM EventsAlwaysTrue == Spec => []EventsAreTrue
<1>1. IInv /\ Stories => EventsAreTrue
  <2> SUFFICES ASSUME IInv, Stories PROVE EventsInOrder /\ RemovalIsTold
    BY DEF EventsAreTrue
  <2>1. EventsInOrder
    BY DEF EventsInOrder, Stories, Story, InOrder
  <2>2. ASSUME connection = "open", NEW p \in created
        PROVE  p \notin m_peers <=> RemovalsOf(p) # {} \/ BeingTold(p)
    <3>1. p \in Peers
      BY DEF IInv, Core, CoreType
    <3>2. BeingTold(p) => p \notin m_peers
      BY <3>1 DEF IInv, Core, DeletingIsOut, BeingTold, Deleting, NotDeleting
    <3> QED
      BY <2>2, <3>1, <3>2 DEF Stories, Story
  <2> QED
    BY <2>1, <2>2 DEF RemovalIsTold, BeingTold
<1>2. Init => Stories
  BY InitTells
<1>3. IInv /\ Stories /\ [Next]_vars => Stories'
  BY StepTells
<1> QED
  BY <1>1, <1>2, <1>3, Invariant, PTL DEF Spec

HIDE PeerLifecycleAssumption

-----------------------------------------------------------------------------
(* What holds of no least number holds of none.                            *)
LEMMA NoLeast ==
  ASSUME NEW B, B \subseteq Nat, 0 \notin B, \A m \in Nat : m \notin B => m + 1 \notin B
  PROVE  B = {}
<1> SUFFICES ASSUME B # {} PROVE FALSE
  OBVIOUS
<1>1. PICK x \in B : \A y \in B : ~(<<y, x>> \in OpToRel(<, Nat))
  BY NatLessThanWellFounded, WFMin, Zenon
<1>2. \A y \in B : ~(y < x)
  BY <1>1 DEF OpToRel
<1>3. x - 1 \in Nat /\ (x - 1) + 1 = x /\ x - 1 < x
  OBVIOUS
<1>4. QED
  BY <1>2, <1>3

(* What is left of a queue when some are taken out of it.                  *)
LEMMA RestIsThere ==
  ASSUME NEW s, NEW T, Len(s) \in Nat
  PROVE  \E f : /\ f = [n \in 0 .. Len(s) |-> IF n = 0 THEN <<>>
                                              ELSE IF s[n] \in T THEN f[n - 1]
                                              ELSE Append(f[n - 1], s[n])]
                /\ Without(s, T) = f[Len(s)]
<1> DEFINE Step(f, n) == IF n = 0 THEN <<>>
                         ELSE IF s[n] \in T THEN f[n - 1] ELSE Append(f[n - 1], s[n])
           B == {m \in Nat : ~\E f : f = [n \in 0 .. m |-> Step(f, n)]}
           F == CHOOSE f : f = [n \in 0 .. Len(s) |-> Step(f, n)]
<1>1. 0 \notin B
  <2>1. [n \in 0 .. 0 |-> <<>>] = [n \in 0 .. 0 |-> Step([k \in 0 .. 0 |-> <<>>], n)]
    OBVIOUS
  <2>2. QED
    BY <2>1
<1>2. ASSUME NEW m \in Nat, m \notin B PROVE m + 1 \notin B
  <2>1. PICK f : f = [n \in 0 .. m |-> Step(f, n)]
    BY <1>2
  <2> DEFINE g == [n \in 0 .. m + 1 |-> IF n = m + 1 THEN Step(f, n) ELSE f[n]]
  <2>2. \A n \in 0 .. m : g[n] = f[n] /\ f[n] = Step(f, n)
    <3> SUFFICES ASSUME NEW n \in 0 .. m PROVE g[n] = f[n] /\ f[n] = Step(f, n)
      OBVIOUS
    <3>1. n # m + 1 /\ n \in 0 .. m + 1
      OBVIOUS
    <3> HIDE DEF Step
    <3>2. f[n] = Step(f, n)
      BY <2>1, Zenon
    <3>3. QED
      BY <3>1, <3>2
  <2>3. \A n \in 0 .. m + 1 : n # 0 => n - 1 \in 0 .. m
    OBVIOUS
  <2>4. \A n \in 0 .. m + 1 : Step(g, n) = Step(f, n)
    <3> HIDE DEF g
    <3>1. QED
      BY <2>2, <2>3
  <2>5. \A n \in 0 .. m + 1 : g[n] = Step(f, n)
    <3> SUFFICES ASSUME NEW n \in 0 .. m + 1 PROVE g[n] = Step(f, n)
      OBVIOUS
    <3>1. n = m + 1 \/ n \in 0 .. m
      OBVIOUS
    <3> HIDE DEF Step
    <3>2. QED
      BY <2>2, <3>1
  <2>6. g = [n \in 0 .. m + 1 |-> Step(g, n)]
    <3>1. g = [n \in 0 .. m + 1 |-> g[n]]
      OBVIOUS
    <3> HIDE DEF g, Step
    <3>2. QED
      BY <2>4, <2>5, <3>1
  <2>7. QED
    <3> HIDE DEF g, Step
    <3>1. QED
      BY <2>6
<1>3. B = {}
  <2> HIDE DEF B
  <2>1. B \subseteq Nat
    BY DEF B
  <2>2. QED
    BY <1>1, <1>2, <2>1, NoLeast
<1>4. \E f : f = [n \in 0 .. Len(s) |-> Step(f, n)]
  <2> HIDE DEF Step
  <2>1. QED
    BY <1>3
<1>5. F = [n \in 0 .. Len(s) |-> Step(F, n)]
  <2> HIDE DEF Step
  <2>1. QED
    BY <1>4, Zenon
<1>6. Without(s, T) = F[Len(s)]
  BY DEF Without
<1>7. QED
  BY <1>5, <1>6, Zenon

LEMMA WithoutIs ==
  ASSUME NEW S, NEW s \in Seq(S), NEW T
  PROVE  /\ Without(s, T) \in Seq(S)
         /\ ToSet(Without(s, T)) = ToSet(s) \ T
         /\ Once(s) => Once(Without(s, T))
<1> DEFINE l == Len(s)
           First(n) == {s[i] : i \in 1 .. n}
<1>1. l \in Nat /\ ToSet(s) = First(l) /\ \A i \in 1 .. l : s[i] \in S
  BY QueueSet
<1>2. PICK f : /\ f = [n \in 0 .. l |-> IF n = 0 THEN <<>>
                                        ELSE IF s[n] \in T THEN f[n - 1] ELSE Append(f[n - 1], s[n])]
               /\ Without(s, T) = f[l]
  BY <1>1, RestIsThere
<1>3. /\ f[0] = <<>>
      /\ \A m \in Nat : m + 1 \in 0 .. l =>
           f[m + 1] = IF s[m + 1] \in T THEN f[m] ELSE Append(f[m], s[m + 1])
  <2> HIDE DEF l
  <2>1. 0 \in 0 .. l /\ \A m \in Nat : m + 1 # 0 /\ (m + 1) - 1 = m
    BY <1>1
  <2>2. QED
    BY <1>2, <2>1
<1>4. Once(s) <=> \A i, k \in 1 .. l : s[i] = s[k] => i = k
  BY DEF Once
<1> HIDE DEF l
<1> DEFINE Good(n) == /\ f[n] \in Seq(S) /\ ToSet(f[n]) = First(n) \ T
                      /\ Once(s) => Once(f[n])
           B == {n \in Nat : n <= l /\ ~Good(n)}
<1>5. 0 \notin B
  <2>1. First(0) = {}
    OBVIOUS
  <2>2. Good(0)
    BY <1>3, <2>1, EmptyQueue
  <2>3. QED
    BY <2>2
<1>6. ASSUME NEW m \in Nat, m \notin B PROVE m + 1 \notin B
  <2> SUFFICES ASSUME m + 1 <= l PROVE Good(m + 1)
    OBVIOUS
  <2>1. m <= l /\ m + 1 \in 1 .. l /\ m + 1 \in 0 .. l /\ s[m + 1] \in S
    BY <1>1
  <2>2. Good(m)
    BY <1>6, <2>1
  <2>3. First(m + 1) = First(m) \union {s[m + 1]}
    <3>1. \A i : i \in 1 .. m + 1 <=> i \in 1 .. m \/ i = m + 1
      OBVIOUS
    <3>2. QED
      BY <3>1
  <2>4. Once(s) => s[m + 1] \notin First(m)
    <3> SUFFICES ASSUME Once(s), NEW i \in 1 .. m, s[i] = s[m + 1] PROVE FALSE
      OBVIOUS
    <3>1. i \in 1 .. l /\ i # m + 1
      BY <1>1, <2>1
    <3>2. QED
      BY <1>4, <2>1, <3>1
  <2>5. CASE s[m + 1] \in T
    <3>1. f[m + 1] = f[m]
      BY <1>3, <2>1, <2>5
    <3> HIDE DEF First
    <3>2. QED
      BY <2>2, <2>3, <2>5, <3>1
  <2>6. CASE s[m + 1] \notin T
    <3>1. f[m + 1] = Append(f[m], s[m + 1])
      BY <1>3, <2>1, <2>6
    <3>2. /\ f[m + 1] \in Seq(S) /\ ToSet(f[m + 1]) = ToSet(f[m]) \union {s[m + 1]}
          /\ Once(f[m]) /\ s[m + 1] \notin ToSet(f[m]) => Once(f[m + 1])
      BY <2>1, <2>2, <3>1, PutLast
    <3> HIDE DEF First
    <3>3. QED
      BY <2>2, <2>3, <2>4, <2>6, <3>2
  <2>7. QED
    BY <2>5, <2>6
<1>7. B = {}
  <2> HIDE DEF B
  <2>1. B \subseteq Nat
    BY DEF B
  <2>2. QED
    BY <1>5, <1>6, <2>1, NoLeast
<1>8. Good(l)
  <2> HIDE DEF Good
  <2>1. QED
    BY <1>1, <1>7
<1>9. QED
  BY <1>1, <1>2, <1>8

-----------------------------------------------------------------------------
(* Active block modifiers: a block that was queued is in one place until   *)
(* it was looked at and its triggers were run.                             *)

AbmScans(w) == abmt[w].pc = "scan"

Scanned == {abmt[w].job : w \in {v \in AbmWorkers : AbmScans(v)}}

AbmPending == ToSet(queueing) \union ToSet(ABM_MapBlocks) \union ToSet(using)
                \union ToSet(triggeringluatoapply) \union Scanned

AbmTypes ==
  /\ batch \in Nat
  /\ queueing \in Seq(AbmJobs) /\ ABM_MapBlocks \in Seq(AbmJobs)
  /\ triggeringluatoapply \in Seq(AbmJobs) /\ using \in Seq(AbmJobs)
  /\ DOMAIN abmt = AbmWorkers
  /\ \A w \in AbmWorkers : IF AbmScans(w) THEN abmt[w].job \in AbmJobs ELSE abmt[w].job = <<>>
  /\ inMap \subseteq AbmBlocks
  /\ asked_abm \subseteq (1 .. batch) \X AbmBlocks
  /\ asked_abm \subseteq AbmJobs
  /\ ran \in [AbmJobs -> Nat]

AbmNoRepetition ==
  /\ Once(queueing) /\ Once(ABM_MapBlocks) /\ Once(triggeringluatoapply)
  /\ using = <<>> \/ \E j \in AbmJobs : using = <<j>>
  /\ \A v, w \in AbmWorkers : AbmScans(v) /\ AbmScans(w) /\ abmt[v].job = abmt[w].job => v = w

AbmOnePlace ==
  /\ ToSet(queueing) \cap ToSet(ABM_MapBlocks) = {}
  /\ ToSet(queueing) \cap ToSet(triggeringluatoapply) = {}
  /\ ToSet(queueing) \cap ToSet(using) = {}
  /\ ToSet(queueing) \cap Scanned = {}
  /\ ToSet(ABM_MapBlocks) \cap ToSet(triggeringluatoapply) = {}
  /\ ToSet(ABM_MapBlocks) \cap ToSet(using) = {}
  /\ ToSet(ABM_MapBlocks) \cap Scanned = {}
  /\ ToSet(triggeringluatoapply) \cap ToSet(using) = {}
  /\ ToSet(triggeringluatoapply) \cap Scanned = {}
  /\ ToSet(using) \cap Scanned = {}

AbmBooks ==
  /\ \A j \in AbmPending : j \in asked_abm /\ ran[j] = 0
  /\ \A j \in AbmJobs : ran[j] = 0 \/ (ran[j] = 1 /\ j \in asked_abm)

AbmInv == AbmTypes /\ AbmNoRepetition /\ AbmOnePlace /\ AbmBooks

(* What a step does to the jobs.                                           *)
AbmNewStatus ==
  \/ UNCHANGED <<asked_abm, ran, AbmPending>>
  \/ /\ ran' = ran /\ asked_abm \subseteq asked_abm'
     /\ AbmPending' = AbmPending \union (asked_abm' \ asked_abm)
  \/ \E j \in AbmPending : /\ asked_abm' = asked_abm /\ ran' = [ran EXCEPT ![j] = @ + 1]
                           /\ AbmPending' = AbmPending \ {j}
  \/ /\ UNCHANGED <<asked_abm, ran>>
     /\ AbmPending' \subseteq AbmPending /\ AbmPending \ AbmPending' \subseteq abmExcuse'

LEMMA OneTrigger ==
  ASSUME NEW e
  PROVE  ToSet(<<e>>) = {e} /\ Head(<<e>>) = e /\ <<e>> # <<>>
BY DEF ToSet

LEMMA BooksKept ==
  ASSUME AbmInv, AbmNewStatus, AbmTypes'
  PROVE  AbmBooks'
<1>1. ran \in [AbmJobs -> Nat] /\ AbmBooks /\ AbmPending \subseteq AbmJobs
  BY DEF AbmInv, AbmTypes, AbmBooks
<1>2. asked_abm' \subseteq AbmJobs
  BY DEF AbmTypes
<1>3. CASE UNCHANGED <<asked_abm, ran, AbmPending>>
  BY <1>1, <1>3 DEF AbmBooks
<1>4. CASE /\ ran' = ran /\ asked_abm \subseteq asked_abm'
           /\ AbmPending' = AbmPending \union (asked_abm' \ asked_abm)
  <2>1. \A j \in asked_abm' \ asked_abm : ran[j] = 0
    BY <1>1, <1>2 DEF AbmBooks
  <2>2. QED
    BY <1>1, <1>4, <2>1 DEF AbmBooks
<1>5. CASE \E j \in AbmPending : /\ asked_abm' = asked_abm /\ ran' = [ran EXCEPT ![j] = @ + 1]
                                 /\ AbmPending' = AbmPending \ {j}
  <2>1. PICK j \in AbmPending : /\ asked_abm' = asked_abm /\ ran' = [ran EXCEPT ![j] = @ + 1]
                                /\ AbmPending' = AbmPending \ {j}
    BY <1>5
  <2>2. ran[j] = 0 /\ j \in asked_abm /\ j \in AbmJobs
    BY <1>1 DEF AbmBooks
  <2>3. ran' = [ran EXCEPT ![j] = 1]
    BY <2>1, <2>2
  <2>4. QED
    BY <1>1, <2>1, <2>2, <2>3 DEF AbmBooks
<1>6. CASE /\ UNCHANGED <<asked_abm, ran>>
           /\ AbmPending' \subseteq AbmPending /\ AbmPending \ AbmPending' \subseteq abmExcuse'
  BY <1>1, <1>6 DEF AbmBooks
<1>7. QED
  BY <1>3, <1>4, <1>5, <1>6 DEF AbmNewStatus

LEMMA ScannedSame ==
  ASSUME abmt' = abmt
  PROVE  Scanned' = Scanned /\ \A w : AbmScans(w)' <=> AbmScans(w)
BY DEF Scanned, AbmScans

(* The server thread puts the blocks of a batch into the queue.            *)
LEMMA QueueMapBlockKeeps ==
  ASSUME AbmInv, QueueMapBlock
  PROVE  AbmInv' /\ AbmNewStatus
<1> DEFINE h == Head(queueing)
<1>1. /\ h \in AbmJobs /\ queueing' \in Seq(AbmJobs) /\ ABM_MapBlocks' \in Seq(AbmJobs)
      /\ ToSet(queueing) = ToSet(queueing') \union {h}
      /\ Once(queueing') /\ h \notin ToSet(queueing')
  BY TakeFirst, PutLast DEF AbmInv, AbmTypes, AbmNoRepetition, QueueMapBlock
<1>2. h \notin ToSet(ABM_MapBlocks)
  BY <1>1 DEF AbmInv, AbmOnePlace
<1>3. ToSet(ABM_MapBlocks') = ToSet(ABM_MapBlocks) \union {h} /\ Once(ABM_MapBlocks')
  BY <1>1, <1>2, PutLast DEF AbmInv, AbmTypes, AbmNoRepetition, QueueMapBlock
<1>4. UNCHANGED <<batch, abmt, inMap, triggeringluatoapply, using, asked_abm, ran, abmExcuse>>
  BY DEF QueueMapBlock, triggerVars, abmHistory
<1> HIDE DEF h
<1>5. Scanned' = Scanned /\ \A w : AbmScans(w)' <=> AbmScans(w)
  BY <1>4, ScannedSame
<1>6. AbmTypes'
  BY <1>1, <1>4, <1>5 DEF AbmInv, AbmTypes
<1>7. AbmNoRepetition'
  BY <1>1, <1>3, <1>4, <1>5 DEF AbmInv, AbmNoRepetition
<1>8. AbmOnePlace'
  BY <1>1, <1>3, <1>4, <1>5 DEF AbmInv, AbmOnePlace
<1>9. AbmNewStatus
  <2>1. AbmPending' = AbmPending
    BY <1>1, <1>3, <1>4, <1>5 DEF AbmPending
  <2>2. QED
    BY <1>4, <2>1 DEF AbmNewStatus
<1>10. QED
  BY <1>6, <1>7, <1>8, <1>9, BooksKept DEF AbmInv

(* It takes a trigger, and runs it.                                        *)
LEMMA PopTriggerKeeps ==
  ASSUME AbmInv, PopTrigger
  PROVE  AbmInv' /\ AbmNewStatus
<1> DEFINE h == Head(triggeringluatoapply)
<1>1. /\ h \in AbmJobs /\ triggeringluatoapply' \in Seq(AbmJobs)
      /\ ToSet(triggeringluatoapply) = ToSet(triggeringluatoapply') \union {h}
      /\ Once(triggeringluatoapply') /\ h \notin ToSet(triggeringluatoapply')
  BY TakeFirst DEF AbmInv, AbmTypes, AbmNoRepetition, PopTrigger
<1>2. using = <<>> /\ using' = <<h>> /\ ToSet(using) = {} /\ ToSet(using') = {h}
  BY EmptyQueue, OneTrigger DEF PopTrigger, ServerIdle
<1>3. UNCHANGED <<batch, queueing, ABM_MapBlocks, abmt, inMap, asked_abm, ran, abmExcuse>>
  BY DEF PopTrigger, queueVarsOfAbm, abmHistory
<1> HIDE DEF h
<1>4. Scanned' = Scanned /\ \A w : AbmScans(w)' <=> AbmScans(w)
  BY <1>3, ScannedSame
<1>5. AbmTypes'
  BY <1>1, <1>2, <1>3, <1>4 DEF AbmInv, AbmTypes
<1>6. AbmNoRepetition'
  BY <1>1, <1>2, <1>3, <1>4 DEF AbmInv, AbmNoRepetition
<1>7. AbmOnePlace'
  BY <1>1, <1>2, <1>3, <1>4 DEF AbmInv, AbmOnePlace
<1>8. AbmNewStatus
  <2>1. AbmPending' = AbmPending
    BY <1>1, <1>2, <1>3, <1>4 DEF AbmPending
  <2>2. QED
    BY <1>3, <2>1 DEF AbmNewStatus
<1>9. QED
  BY <1>5, <1>6, <1>7, <1>8, BooksKept DEF AbmInv

LEMMA RunTriggerKeeps ==
  ASSUME AbmInv, RunTrigger
  PROVE  AbmInv' /\ AbmNewStatus
<1>1. PICK j \in AbmJobs : using = <<j>>
  BY DEF AbmInv, AbmNoRepetition, RunTrigger
<1>2. Head(using) = j /\ ToSet(using) = {j} /\ using' = <<>> /\ ToSet(using') = {}
  BY <1>1, OneTrigger, EmptyQueue DEF RunTrigger
<1>3. /\ UNCHANGED <<batch, queueing, ABM_MapBlocks, abmt, inMap, triggeringluatoapply,
                     asked_abm, abmExcuse>>
      /\ ran' = [ran EXCEPT ![j] = @ + 1]
  BY <1>2 DEF RunTrigger, queueVarsOfAbm
<1>4. Scanned' = Scanned /\ \A w : AbmScans(w)' <=> AbmScans(w)
  BY <1>3, ScannedSame
<1>5. AbmTypes'
  <2>1. ran' \in [AbmJobs -> Nat] /\ using' \in Seq(AbmJobs)
    BY <1>2, <1>3 DEF AbmInv, AbmTypes
  <2>2. QED
    BY <1>3, <1>4, <2>1 DEF AbmInv, AbmTypes
<1>6. AbmNoRepetition'
  BY <1>2, <1>3, <1>4 DEF AbmInv, AbmNoRepetition
<1>7. AbmOnePlace'
  BY <1>2, <1>3, <1>4 DEF AbmInv, AbmOnePlace
<1>8. AbmNewStatus
  <2>1. AbmPending' = AbmPending \ {j} /\ j \in AbmPending
    BY <1>2, <1>3, <1>4 DEF AbmInv, AbmOnePlace, AbmPending
  <2>2. QED
    BY <1>3, <2>1 DEF AbmNewStatus
<1>9. QED
  BY <1>5, <1>6, <1>7, <1>8, BooksKept DEF AbmInv

(* What it runs was freed: the job is lost, and maybe the next one too.    *)
LEMMA RunFreedTriggerKeeps ==
  ASSUME AbmInv, RunFreedTrigger
  PROVE  AbmInv' /\ AbmNewStatus
<1>1. PICK j \in AbmJobs : using = <<j>>
  BY DEF AbmInv, AbmNoRepetition, RunFreedTrigger
<1>2. Head(using) = j /\ ToSet(using) = {j} /\ using' = <<>> /\ ToSet(using') = {}
  BY <1>1, OneTrigger, EmptyQueue DEF RunFreedTrigger
<1>3. UNCHANGED <<batch, queueing, ABM_MapBlocks, abmt, inMap, asked_abm, ran>>
  BY DEF RunFreedTrigger, queueVarsOfAbm
<1>4. Scanned' = Scanned /\ \A w : AbmScans(w)' <=> AbmScans(w)
  BY <1>3, ScannedSame
<1>5. /\ triggeringluatoapply' \in Seq(AbmJobs) /\ Once(triggeringluatoapply')
      /\ ToSet(triggeringluatoapply') \subseteq ToSet(triggeringluatoapply)
      /\ ToSet(triggeringluatoapply) \ ToSet(triggeringluatoapply') \subseteq abmExcuse'
      /\ j \in abmExcuse'
  <2>1. CASE /\ abmExcuse' = abmExcuse \union {Head(using)}
             /\ UNCHANGED triggeringluatoapply
    BY <1>2, <2>1 DEF AbmInv, AbmTypes, AbmNoRepetition
  <2>2. CASE /\ triggeringluatoapply # <<>>
             /\ abmExcuse' = abmExcuse \union {Head(using), Head(triggeringluatoapply)}
             /\ triggeringluatoapply' = Tail(triggeringluatoapply)
    <3>1. /\ triggeringluatoapply' \in Seq(AbmJobs) /\ Once(triggeringluatoapply')
          /\ ToSet(triggeringluatoapply)
               = ToSet(triggeringluatoapply') \union {Head(triggeringluatoapply)}
      BY <2>2, TakeFirst DEF AbmInv, AbmTypes, AbmNoRepetition
    <3>2. QED
      BY <1>2, <2>2, <3>1
  <2>3. QED
    BY <2>1, <2>2 DEF RunFreedTrigger
<1>6. AbmTypes'
  BY <1>2, <1>3, <1>4, <1>5 DEF AbmInv, AbmTypes
<1>7. AbmNoRepetition'
  BY <1>2, <1>3, <1>4, <1>5 DEF AbmInv, AbmNoRepetition
<1>8. AbmOnePlace'
  BY <1>2, <1>3, <1>4, <1>5 DEF AbmInv, AbmOnePlace
<1>9. AbmNewStatus
  <2>1. AbmPending' \subseteq AbmPending
    BY <1>2, <1>3, <1>4, <1>5 DEF AbmPending
  <2>2. AbmPending \ AbmPending' \subseteq abmExcuse'
    BY <1>2, <1>3, <1>4, <1>5 DEF AbmPending
  <2>3. QED
    BY <1>3, <2>1, <2>2 DEF AbmNewStatus
<1>10. QED
  BY <1>6, <1>7, <1>8, <1>9, BooksKept DEF AbmInv

(* The workers' jobs.                                                      *)
ScannersDiffer ==
  /\ DOMAIN abmt = AbmWorkers
  /\ \A w \in AbmWorkers : IF AbmScans(w) THEN abmt[w].job \in AbmJobs ELSE abmt[w].job = <<>>
  /\ \A v, w \in AbmWorkers : AbmScans(v) /\ AbmScans(w) /\ abmt[v].job = abmt[w].job => v = w

LEMMA ScanStarts ==
  ASSUME AbmInv, NEW w \in AbmWorkers, ~AbmScans(w), NEW h \in AbmJobs, h \notin Scanned,
         abmt' = [abmt EXCEPT ![w] = [pc |-> "scan", job |-> h]]
  PROVE  ScannersDiffer' /\ Scanned' = Scanned \union {h}
<1>1. ScannersDiffer
  BY DEF AbmInv, AbmTypes, AbmNoRepetition, ScannersDiffer
<1>2. /\ DOMAIN abmt' = AbmWorkers
      /\ abmt'[w].pc = "scan" /\ abmt'[w].job = h
      /\ \A v \in AbmWorkers \ {w} : abmt'[v] = abmt[v]
  BY <1>1 DEF ScannersDiffer
<1>3. AbmScans(w)' /\ \A v \in AbmWorkers \ {w} : AbmScans(v)' <=> AbmScans(v)
  BY <1>2 DEF AbmScans
<1>4. \A v \in AbmWorkers : AbmScans(v) => abmt[v].job # h
  BY DEF Scanned
<1>5. Scanned' = Scanned \union {h}
  <2>1. ASSUME NEW j \in Scanned' PROVE j \in Scanned \union {h}
    BY <1>2, <1>3, <2>1 DEF Scanned
  <2>2. ASSUME NEW j \in Scanned PROVE j \in Scanned'
    <3>1. PICK v \in AbmWorkers : AbmScans(v) /\ abmt[v].job = j
      BY <2>2 DEF Scanned
    <3>2. v # w /\ AbmScans(v)' /\ abmt'[v].job = j
      BY <1>2, <1>3, <3>1
    <3>3. QED
      BY <3>2 DEF Scanned
  <2>3. h \in Scanned'
    BY <1>2, <1>3 DEF Scanned
  <2>4. QED
    BY <2>1, <2>2, <2>3
<1>6. ScannersDiffer'
  BY <1>1, <1>2, <1>3, <1>4 DEF ScannersDiffer
<1>7. QED
  BY <1>5, <1>6

LEMMA ScanEnds ==
  ASSUME AbmInv, NEW w \in AbmWorkers, AbmScans(w),
         abmt' = [abmt EXCEPT ![w] = Worker("check")]
  PROVE  ScannersDiffer' /\ Scanned' = Scanned \ {abmt[w].job} /\ abmt[w].job \in Scanned
<1>1. ScannersDiffer
  BY DEF AbmInv, AbmTypes, AbmNoRepetition, ScannersDiffer
<1>2. /\ DOMAIN abmt' = AbmWorkers
      /\ abmt'[w].pc = "check" /\ abmt'[w].job = <<>>
      /\ \A v \in AbmWorkers \ {w} : abmt'[v] = abmt[v]
  BY <1>1 DEF ScannersDiffer, Worker
<1>3. ~AbmScans(w)' /\ \A v \in AbmWorkers \ {w} : AbmScans(v)' <=> AbmScans(v)
  BY <1>2 DEF AbmScans
<1>4. \A v \in AbmWorkers \ {w} : AbmScans(v) => abmt[v].job # abmt[w].job
  BY <1>1 DEF ScannersDiffer
<1>5. Scanned' = Scanned \ {abmt[w].job}
  <2>1. ASSUME NEW j \in Scanned' PROVE j \in Scanned \ {abmt[w].job}
    <3>1. PICK v \in AbmWorkers : AbmScans(v)' /\ abmt'[v].job = j
      BY <2>1 DEF Scanned
    <3>2. v # w /\ AbmScans(v) /\ abmt[v].job = j
      BY <1>2, <1>3, <3>1
    <3>3. QED
      BY <1>4, <3>2 DEF Scanned
  <2>2. ASSUME NEW j \in Scanned \ {abmt[w].job} PROVE j \in Scanned'
    <3>1. PICK v \in AbmWorkers : AbmScans(v) /\ abmt[v].job = j
      BY <2>2 DEF Scanned
    <3>2. v # w /\ AbmScans(v)' /\ abmt'[v].job = j
      BY <1>2, <1>3, <2>2, <3>1
    <3>3. QED
      BY <3>2 DEF Scanned
  <2>3. QED
    BY <2>1, <2>2
<1>6. ScannersDiffer'
  BY <1>1, <1>2, <1>3 DEF ScannersDiffer
<1>7. QED
  BY <1>5, <1>6 DEF Scanned

LEMMA NoScanMoves ==
  ASSUME AbmInv, DOMAIN abmt' = AbmWorkers,
         \A w \in AbmWorkers : \/ abmt'[w] = abmt[w]
                               \/ ~AbmScans(w) /\ ~AbmScans(w)' /\ abmt'[w].job = <<>>
  PROVE  ScannersDiffer' /\ Scanned' = Scanned
<1>1. ScannersDiffer
  BY DEF AbmInv, AbmTypes, AbmNoRepetition, ScannersDiffer
<1>2. \A w \in AbmWorkers : /\ AbmScans(w)' <=> AbmScans(w)
                            /\ AbmScans(w) => abmt'[w].job = abmt[w].job
                            /\ abmt'[w].job = abmt[w].job \/ abmt'[w].job = <<>>
  BY DEF AbmScans
<1>3. Scanned' = Scanned
  <2>1. ASSUME NEW j \in Scanned' PROVE j \in Scanned
    BY <1>2, <2>1 DEF Scanned
  <2>2. ASSUME NEW j \in Scanned PROVE j \in Scanned'
    <3>1. PICK v \in AbmWorkers : AbmScans(v) /\ abmt[v].job = j
      BY <2>2 DEF Scanned
    <3>2. AbmScans(v)' /\ abmt'[v].job = j
      BY <1>2, <3>1
    <3>3. QED
      BY <3>2 DEF Scanned
  <2>3. QED
    BY <2>1, <2>2
<1>4. ScannersDiffer'
  BY <1>1, <1>2 DEF ScannersDiffer
<1>5. QED
  BY <1>3, <1>4

(* A worker takes the first block of the queue, or goes to wait.           *)
LEMMA TakeMapBlockKeeps ==
  ASSUME AbmInv, NEW w \in AbmWorkers, TakeMapBlock(w)
  PROVE  AbmInv' /\ AbmNewStatus
<1>1. UNCHANGED <<batch, queueing, inMap, triggeringluatoapply, using, asked_abm, ran, abmExcuse>>
  BY DEF TakeMapBlock, triggerVars, abmHistory
<1>2. ~AbmScans(w) /\ DOMAIN abmt = AbmWorkers
  BY DEF TakeMapBlock, AbmScans, AbmInv, AbmTypes
<1>3. CASE /\ ABM_MapBlocks' = ABM_MapBlocks
           /\ abmt' = [abmt EXCEPT ![w] = Worker("wait")]
  <2>1. ScannersDiffer' /\ Scanned' = Scanned
    <3>1. abmt'[w].job = <<>> /\ ~AbmScans(w)'
      BY <1>2, <1>3 DEF Worker, AbmScans
    <3>2. DOMAIN abmt' = AbmWorkers /\ \A v \in AbmWorkers \ {w} : abmt'[v] = abmt[v]
      BY <1>2, <1>3
    <3>3. QED
      BY <1>2, <3>1, <3>2, NoScanMoves
  <2>2. AbmTypes' /\ AbmNoRepetition' /\ AbmOnePlace'
    BY <1>1, <1>3, <2>1
       DEF AbmInv, AbmTypes, AbmNoRepetition, AbmOnePlace, ScannersDiffer
  <2>3. AbmNewStatus
    BY <1>1, <1>3, <2>1 DEF AbmNewStatus, AbmPending
  <2>4. QED
    BY <2>2, <2>3, BooksKept DEF AbmInv
<1>4. CASE /\ ABM_MapBlocks # <<>> /\ ABM_MapBlocks' = Tail(ABM_MapBlocks)
           /\ abmt' = [abmt EXCEPT ![w] = [pc |-> "scan", job |-> Head(ABM_MapBlocks)]]
  <2> DEFINE h == Head(ABM_MapBlocks)
  <2>1. /\ h \in AbmJobs /\ ABM_MapBlocks' \in Seq(AbmJobs)
        /\ ToSet(ABM_MapBlocks) = ToSet(ABM_MapBlocks') \union {h}
        /\ Once(ABM_MapBlocks') /\ h \notin ToSet(ABM_MapBlocks')
    BY <1>4, TakeFirst DEF AbmInv, AbmTypes, AbmNoRepetition
  <2>2. h \notin Scanned
    BY <2>1 DEF AbmInv, AbmOnePlace
  <2>3. ScannersDiffer' /\ Scanned' = Scanned \union {h}
    BY <1>2, <1>4, <2>1, <2>2, ScanStarts
  <2> HIDE DEF h
  <2>4. AbmTypes'
    BY <1>1, <2>1, <2>3 DEF AbmInv, AbmTypes, ScannersDiffer
  <2>5. AbmNoRepetition'
    BY <1>1, <2>1, <2>3 DEF AbmInv, AbmNoRepetition, ScannersDiffer
  <2>6. AbmOnePlace'
    BY <1>1, <2>1, <2>3 DEF AbmInv, AbmOnePlace
  <2>7. AbmPending' = AbmPending
    BY <1>1, <2>1, <2>3 DEF AbmPending
  <2>8. AbmNewStatus
    BY <1>1, <2>7 DEF AbmNewStatus
  <2>9. QED
    BY <2>4, <2>5, <2>6, <2>8, BooksKept DEF AbmInv
<1>5. QED
  BY <1>3, <1>4 DEF TakeMapBlock

LEMMA IdleWorkersKeep ==
  ASSUME AbmInv, startengine \/ \E w \in AbmWorkers : WaitForMapBlocks(w)
  PROVE  AbmInv' /\ AbmNewStatus
<1>1. UNCHANGED <<batch, queueing, ABM_MapBlocks, inMap, triggeringluatoapply, using, asked_abm,
                  ran, abmExcuse>>
  BY DEF startengine, WaitForMapBlocks, queueVarsOfAbm, triggerVars, abmHistory
<1>2. ScannersDiffer' /\ Scanned' = Scanned
  <2>0. DOMAIN abmt = AbmWorkers
    BY DEF AbmInv, AbmTypes
  <2>1. CASE startengine
    <3>1. DOMAIN abmt' = AbmWorkers
      BY <2>1 DEF startengine
    <3>2. \A w \in AbmWorkers : \/ abmt'[w] = abmt[w]
                                \/ ~AbmScans(w) /\ ~AbmScans(w)' /\ abmt'[w].job = <<>>
      BY <2>1 DEF startengine, Worker, AbmScans
    <3>3. QED
      BY <3>1, <3>2, NoScanMoves
  <2>2. CASE \E w \in AbmWorkers : WaitForMapBlocks(w)
    <3>1. DOMAIN abmt' = AbmWorkers
      BY <2>0, <2>2 DEF WaitForMapBlocks
    <3>2. \A w \in AbmWorkers : \/ abmt'[w] = abmt[w]
                                \/ ~AbmScans(w) /\ ~AbmScans(w)' /\ abmt'[w].job = <<>>
      BY <2>0, <2>2 DEF WaitForMapBlocks, Worker, AbmScans
    <3>3. QED
      BY <3>1, <3>2, NoScanMoves
  <2>3. QED
    BY <2>1, <2>2
<1>3. AbmTypes' /\ AbmNoRepetition' /\ AbmOnePlace'
  BY <1>1, <1>2 DEF AbmInv, AbmTypes, AbmNoRepetition, AbmOnePlace, ScannersDiffer
<1>4. AbmNewStatus
  BY <1>1, <1>2 DEF AbmNewStatus, AbmPending
<1>5. QED
  BY <1>3, <1>4, BooksKept DEF AbmInv

(* It is through with a block.                                             *)
LEMMA ScanKeeps ==
  ASSUME AbmInv, NEW w \in AbmWorkers, NEW found \in BOOLEAN, trigger_actions(w, found)
  PROVE  AbmInv' /\ AbmNewStatus
<1> DEFINE j == abmt[w].job
<1>1. UNCHANGED <<batch, queueing, ABM_MapBlocks, inMap, using, asked_abm, abmExcuse>>
  BY DEF trigger_actions, queueVarsOfAbm
<1>2. AbmScans(w) /\ j \in AbmJobs
  BY DEF trigger_actions, AbmScans, AbmInv, AbmTypes
<1>3. ScannersDiffer' /\ Scanned' = Scanned \ {j} /\ j \in Scanned
  BY <1>2, ScanEnds DEF trigger_actions
<1>4. /\ j \notin ToSet(queueing) /\ j \notin ToSet(ABM_MapBlocks) /\ j \notin ToSet(using)
      /\ j \notin ToSet(triggeringluatoapply)
  BY <1>3 DEF AbmInv, AbmOnePlace
<1>5. CASE found
  <2>1. triggeringluatoapply' = Append(triggeringluatoapply, j) /\ ran' = ran
    BY <1>5 DEF trigger_actions
  <2>2. /\ triggeringluatoapply' \in Seq(AbmJobs)
        /\ ToSet(triggeringluatoapply') = ToSet(triggeringluatoapply) \union {j}
        /\ Once(triggeringluatoapply')
    BY <1>2, <1>4, <2>1, PutLast DEF AbmInv, AbmTypes, AbmNoRepetition
  <2> HIDE DEF j
  <2>3. AbmTypes'
    BY <1>1, <1>3, <2>1, <2>2 DEF AbmInv, AbmTypes, ScannersDiffer
  <2>4. AbmNoRepetition'
    BY <1>1, <1>3, <2>2 DEF AbmInv, AbmNoRepetition, ScannersDiffer
  <2>5. AbmOnePlace'
    BY <1>1, <1>3, <1>4, <2>2 DEF AbmInv, AbmOnePlace
  <2>6. AbmPending' = AbmPending
    BY <1>1, <1>3, <2>2 DEF AbmPending
  <2>7. AbmNewStatus
    BY <1>1, <2>1, <2>6 DEF AbmNewStatus
  <2>8. QED
    BY <2>3, <2>4, <2>5, <2>7, BooksKept DEF AbmInv
<1>6. CASE ~found
  <2>1. triggeringluatoapply' = triggeringluatoapply /\ ran' = [ran EXCEPT ![j] = @ + 1]
    BY <1>6 DEF trigger_actions
  <2> HIDE DEF j
  <2>2. ran' \in [AbmJobs -> Nat]
    <3>1. ran \in [AbmJobs -> Nat]
      BY DEF AbmInv, AbmTypes
    <3>2. ran[j] + 1 \in Nat
      BY <1>2, <3>1
    <3>3. QED
      BY <2>1, <3>1, <3>2
  <2>3. AbmTypes'
    BY <1>1, <1>3, <2>1, <2>2 DEF AbmInv, AbmTypes, ScannersDiffer
  <2>4. AbmNoRepetition'
    BY <1>1, <1>3, <2>1 DEF AbmInv, AbmNoRepetition, ScannersDiffer
  <2>5. AbmOnePlace'
    BY <1>1, <1>3, <2>1 DEF AbmInv, AbmOnePlace
  <2>6. AbmPending' = AbmPending \ {j} /\ j \in AbmPending
    BY <1>1, <1>3, <1>4, <2>1 DEF AbmPending
  <2>7. AbmNewStatus
    BY <1>1, <2>1, <2>6 DEF AbmNewStatus
  <2>8. QED
    BY <2>3, <2>4, <2>5, <2>7, BooksKept DEF AbmInv
<1>7. QED
  BY <1>5, <1>6

(* A batch is begun when the queue is empty: none of its jobs is known.    *)
LEMMA BatchJobs ==
  ASSUME AbmInv, NEW S, S \subseteq inMap, NEW blocks \in SetToSeqs(S), AbmStep(blocks)
  PROVE  /\ queueing' \in Seq(AbmJobs) /\ Once(queueing')
         /\ \A j \in ToSet(queueing') : j \in AbmJobs /\ j \notin asked_abm
         /\ \A j \in ToSet(queueing') : j \in (1 .. batch + 1) \X AbmBlocks
<1>0. batch \in Nat /\ MaxBatches \in Nat /\ batch < MaxBatches /\ S \subseteq AbmBlocks
  BY AbmEngineAssumption DEF AbmInv, AbmTypes, AbmStep
<1>1. PICK n \in Nat : n = Cardinality(S)
  BY <1>0, AbmEngineAssumption, FS_Subset, FS_CardinalityType
<1>2. /\ blocks \in [1 .. n -> S]
      /\ \A i, k \in 1 .. n : blocks[i] = blocks[k] => i = k
  BY <1>1 DEF SetToSeqs
<1>3. queueing' = [i \in 1 .. n |-> <<batch + 1, blocks[i]>>]
  BY <1>2 DEF AbmStep
<1>4. \A i \in 1 .. n : queueing'[i] \in AbmJobs /\ queueing'[i] \in (1 .. batch + 1) \X AbmBlocks
  <2> SUFFICES ASSUME NEW i \in 1 .. n
               PROVE  <<batch + 1, blocks[i]>> \in AbmJobs
                      /\ <<batch + 1, blocks[i]>> \in (1 .. batch + 1) \X AbmBlocks
    BY <1>3
  <2>1. blocks[i] \in AbmBlocks /\ batch + 1 \in 1 .. MaxBatches /\ batch + 1 \in 1 .. batch + 1
    BY <1>0, <1>2
  <2>2. QED
    BY <2>1 DEF AbmJobs
<1>5. queueing' \in Seq(AbmJobs) /\ Len(queueing') = n
  <2>1. queueing' \in [1 .. n -> AbmJobs] /\ DOMAIN queueing' = 1 .. n
    BY <1>3, <1>4
  <2>2. queueing' \in Seq(AbmJobs)
    BY <1>1, <2>1
  <2>3. QED
    BY <1>1, <2>1, <2>2
<1>6. Once(queueing')
  <2> SUFFICES ASSUME NEW i \in 1 .. n, NEW k \in 1 .. n, queueing'[i] = queueing'[k]
               PROVE  i = k
    BY <1>5 DEF Once
  <2>1. <<batch + 1, blocks[i]>> = <<batch + 1, blocks[k]>>
    BY <1>3
  <2>2. QED
    BY <1>2, <2>1
<1>7. ToSet(queueing') = {queueing'[i] : i \in 1 .. n}
  BY <1>5, QueueSet
<1>8. \A i \in 1 .. n : queueing'[i] \notin asked_abm
  <2> SUFFICES ASSUME NEW i \in 1 .. n, <<batch + 1, blocks[i]>> \in (1 .. batch) \X AbmBlocks
               PROVE  FALSE
    BY <1>3 DEF AbmInv, AbmTypes
  <2>1. batch + 1 \in 1 .. batch
    OBVIOUS
  <2>2. QED
    BY <1>0, <2>1
<1>9. QED
  BY <1>4, <1>5, <1>6, <1>7, <1>8

LEMMA AbmStepKeeps ==
  ASSUME AbmInv, NEW S, S \subseteq inMap, NEW blocks \in SetToSeqs(S), AbmStep(blocks)
  PROVE  AbmInv' /\ AbmNewStatus
<1>1. /\ queueing' \in Seq(AbmJobs) /\ Once(queueing')
      /\ \A j \in ToSet(queueing') : j \in AbmJobs /\ j \notin asked_abm
      /\ \A j \in ToSet(queueing') : j \in (1 .. batch + 1) \X AbmBlocks
  BY BatchJobs
<1>2. UNCHANGED <<ABM_MapBlocks, abmt, inMap, triggeringluatoapply, using, ran>>
  BY DEF AbmStep, triggerVars
<1>3. /\ ToSet(queueing) = {} /\ batch' = batch + 1
      /\ asked_abm' = asked_abm \union ToSet(queueing')
  BY EmptyQueue DEF AbmStep, ServerIdle
<1>4. Scanned' = Scanned /\ \A w : AbmScans(w)' <=> AbmScans(w)
  BY <1>2, ScannedSame
<1>5. AbmPending \subseteq asked_abm
  BY DEF AbmInv, AbmBooks
<1>6. /\ ToSet(queueing') \cap ToSet(ABM_MapBlocks) = {}
      /\ ToSet(queueing') \cap ToSet(triggeringluatoapply) = {}
      /\ ToSet(queueing') \cap ToSet(using) = {}
      /\ ToSet(queueing') \cap Scanned = {}
  BY <1>1, <1>5 DEF AbmPending
<1>7. AbmTypes'
  <2>1. asked_abm' \subseteq (1 .. batch') \X AbmBlocks /\ batch' \in Nat
    <3>1. batch \in Nat /\ asked_abm \subseteq (1 .. batch) \X AbmBlocks
      BY DEF AbmInv, AbmTypes
    <3>2. 1 .. batch \subseteq 1 .. batch + 1
      BY <3>1
    <3>3. (1 .. batch) \X AbmBlocks \subseteq (1 .. batch + 1) \X AbmBlocks
      BY <3>2
    <3>4. QED
      BY <1>1, <1>3, <3>1, <3>3
  <2>2. asked_abm' \subseteq AbmJobs
    BY <1>1, <1>3 DEF AbmInv, AbmTypes
  <2>3. QED
    BY <1>1, <1>2, <1>4, <2>1, <2>2 DEF AbmInv, AbmTypes
<1>8. AbmNoRepetition'
  BY <1>1, <1>2, <1>4 DEF AbmInv, AbmNoRepetition
<1>9. AbmOnePlace'
  BY <1>2, <1>4, <1>6 DEF AbmInv, AbmOnePlace
<1>10. AbmNewStatus
  <2>1. AbmPending' = AbmPending \union ToSet(queueing')
    BY <1>2, <1>3, <1>4 DEF AbmPending
  <2>2. asked_abm' \ asked_abm = ToSet(queueing')
    BY <1>1, <1>3
  <2>3. QED
    BY <1>2, <1>3, <2>1, <2>2 DEF AbmNewStatus
<1>11. QED
  BY <1>7, <1>8, <1>9, <1>10, BooksKept DEF AbmInv

LEMMA AbmBlockDeletedKeeps ==
  ASSUME AbmInv, NEW b \in AbmBlocks, AbmBlockDeleted(b)
  PROVE  AbmInv' /\ AbmNewStatus
<1>1. /\ UNCHANGED <<batch, queueing, ABM_MapBlocks, abmt, triggeringluatoapply, using, asked_abm, ran>>
      /\ inMap' \subseteq inMap
  BY DEF AbmBlockDeleted, queueVarsOfAbm, triggerVars
<1>2. Scanned' = Scanned /\ \A w : AbmScans(w)' <=> AbmScans(w)
  BY <1>1, ScannedSame
<1>3. AbmTypes' /\ AbmNoRepetition' /\ AbmOnePlace'
  BY <1>1, <1>2 DEF AbmInv, AbmTypes, AbmNoRepetition, AbmOnePlace
<1>4. AbmNewStatus
  BY <1>1, <1>2 DEF AbmNewStatus, AbmPending
<1>5. QED
  BY <1>3, <1>4, BooksKept DEF AbmInv

LEMMA AbmKeeps ==
  ASSUME AbmInv, [AbmNext]_abmVars
  PROVE  AbmInv' /\ (AbmNewStatus \/ UNCHANGED abmVars)
<1>1. CASE UNCHANGED abmVars
  <2>1. UNCHANGED <<batch, queueing, ABM_MapBlocks, abmt, inMap, triggeringluatoapply, using,
                    asked_abm, ran>>
    BY <1>1 DEF abmVars
  <2>2. Scanned' = Scanned /\ \A w : AbmScans(w)' <=> AbmScans(w)
    BY <2>1, ScannedSame
  <2>3. AbmPending' = AbmPending
    BY <2>1, <2>2 DEF AbmPending
  <2>4. QED
    BY <1>1, <2>1, <2>2, <2>3
       DEF AbmInv, AbmTypes, AbmNoRepetition, AbmOnePlace, AbmBooks
<1>2. CASE \E S \in SUBSET inMap \ {{}} : \E blocks \in SetToSeqs(S) : AbmStep(blocks)
  <2>1. PICK S \in SUBSET inMap : \E blocks \in SetToSeqs(S) : AbmStep(blocks)
    BY <1>2
  <2>2. QED
    BY <2>1, AbmStepKeeps
<1>3. CASE \E b \in AbmBlocks : AbmBlockDeleted(b)
  BY <1>3, AbmBlockDeletedKeeps
<1>4. CASE AbmServerNext
  BY <1>4, QueueMapBlockKeeps, PopTriggerKeeps, RunTriggerKeeps, RunFreedTriggerKeeps
     DEF AbmServerNext
<1>5. CASE startengine
  BY <1>5, IdleWorkersKeep
<1>6. CASE \E w \in AbmWorkers : AbmWorkerNext(w)
  <2>1. PICK w \in AbmWorkers : AbmWorkerNext(w)
    BY <1>6
  <2>2. CASE TakeMapBlock(w)
    BY <2>2, TakeMapBlockKeeps
  <2>3. CASE WaitForMapBlocks(w)
    BY <2>3, IdleWorkersKeep
  <2>4. CASE \E found \in BOOLEAN : trigger_actions(w, found)
    BY <2>4, ScanKeeps
  <2>5. QED
    BY <2>1, <2>2, <2>3, <2>4 DEF AbmWorkerNext
<1>7. QED
  BY <1>1, <1>2, <1>3, <1>4, <1>5, <1>6 DEF AbmNext

LEMMA AbmBegins ==
  ASSUME AbmInit
  PROVE  AbmInv
<1>1. Scanned = {} /\ \A w \in AbmWorkers : ~AbmScans(w) /\ abmt[w].job = <<>>
  BY DEF AbmInit, Scanned, AbmScans, Worker
<1>2. ToSet(queueing) = {} /\ ToSet(ABM_MapBlocks) = {} /\ ToSet(triggeringluatoapply) = {}
      /\ ToSet(using) = {} /\ Once(<<>>)
  BY EmptyQueue DEF AbmInit
<1>3. AbmTypes
  <2>1. \A w \in AbmWorkers : IF AbmScans(w) THEN abmt[w].job \in AbmJobs ELSE abmt[w].job = <<>>
    BY <1>1
  <2>2. /\ queueing \in Seq(AbmJobs) /\ ABM_MapBlocks \in Seq(AbmJobs)
        /\ triggeringluatoapply \in Seq(AbmJobs) /\ using \in Seq(AbmJobs)
    BY DEF AbmInit
  <2>3. DOMAIN abmt = AbmWorkers /\ inMap = AbmBlocks /\ batch \in Nat /\ asked_abm = {}
    BY DEF AbmInit
  <2>4. ran \in [AbmJobs -> Nat]
    BY DEF AbmInit
  <2>5. QED
    BY <2>1, <2>2, <2>3, <2>4 DEF AbmTypes
<1>4. AbmNoRepetition
  BY <1>1, <1>2 DEF AbmInit, AbmNoRepetition
<1>5. AbmOnePlace
  BY <1>1, <1>2 DEF AbmOnePlace
<1>6. AbmBooks
  BY <1>1, <1>2 DEF AbmBooks, AbmPending, AbmInit
<1>7. QED
  BY <1>3, <1>4, <1>5, <1>6 DEF AbmInv

AbmStatusIs ==
  AbmStatus = [j \in AbmJobs |-> IF j \notin asked_abm THEN "new"
                                 ELSE IF ran[j] = 1 THEN "answered"
                                 ELSE IF j \in AbmPending THEN "pending" ELSE "dropped"]

LEMMA AbmStatusKnown == AbmInv => AbmStatusIs
<1> SUFFICES ASSUME AbmInv PROVE AbmStatusIs
  OBVIOUS
<1>1. \A j \in AbmJobs : j \in InAbmEngine <=> j \in AbmPending
  <2> SUFFICES ASSUME NEW j \in AbmJobs
               PROVE  (\E w \in AbmWorkers : abmt[w].job = j) <=> j \in Scanned
    BY DEF InAbmEngine, AbmPending
  <2>1. j # <<>>
    BY DEF AbmJobs
  <2>2. \A w \in AbmWorkers : abmt[w].job = j => AbmScans(w)
    BY <2>1 DEF AbmInv, AbmTypes
  <2>3. QED
    BY <2>2 DEF Scanned
<1>2. \A j \in AbmJobs : ran[j] = 0 \/ ran[j] = 1
  BY DEF AbmInv, AbmBooks
<1>3. ASSUME NEW j \in AbmJobs
      PROVE  (CASE j \notin asked_abm -> "new"
                [] ran[j] = 1         -> "answered"
                [] ran[j] > 1         -> "repeated"
                [] j \in InAbmEngine  -> "pending"
                [] OTHER              -> "dropped")
             = (IF j \notin asked_abm THEN "new" ELSE IF ran[j] = 1 THEN "answered"
                ELSE IF j \in AbmPending THEN "pending" ELSE "dropped")
  <2>1. j \in asked_abm \/ ran[j] # 1
    BY DEF AbmInv, AbmBooks
  <2>2. ~(ran[j] > 1) /\ (j \in InAbmEngine <=> j \in AbmPending)
    BY <1>1, <1>2
  <2>3. j \in AbmPending => j \in asked_abm /\ ran[j] # 1
    BY DEF AbmInv, AbmBooks
  <2>4. CASE j \notin asked_abm
    BY <2>1, <2>2, <2>3, <2>4
  <2>5. CASE j \in asked_abm /\ ran[j] = 1
    BY <2>1, <2>2, <2>3, <2>5
  <2>6. CASE j \in asked_abm /\ ran[j] # 1 /\ j \in AbmPending
    BY <2>2, <2>6
  <2>7. CASE j \in asked_abm /\ ran[j] # 1 /\ j \notin AbmPending
    BY <2>2, <2>7
  <2>8. QED
    BY <2>4, <2>5, <2>6, <2>7
<1>4. QED
  BY <1>3 DEF AbmStatusIs, AbmStatus

LEMMA AbmImplementsJobs ==
  ASSUME AbmInv, AbmStatusIs, AbmStatusIs', AbmNewStatus
  PROVE  AbmService!Next
<1>1. DOMAIN AbmStatus' = AbmJobs
  BY DEF AbmStatusIs
<1>2. ASSUME NEW j \in AbmJobs
      PROVE  AbmStatus'[j] = AbmStatus[j] \/ AbmService!Submit(j)
             \/ AbmService!Answer(j) \/ AbmService!Drop(j)
  <2>1. AbmStatus[j] = IF j \notin asked_abm THEN "new" ELSE IF ran[j] = 1 THEN "answered"
                       ELSE IF j \in AbmPending THEN "pending" ELSE "dropped"
    BY DEF AbmStatusIs
  <2>2. AbmStatus'[j] = IF j \notin asked_abm' THEN "new" ELSE IF ran'[j] = 1 THEN "answered"
                        ELSE IF j \in AbmPending' THEN "pending" ELSE "dropped"
    BY DEF AbmStatusIs
  <2>3. /\ j \in AbmPending => j \in asked_abm /\ ran[j] = 0
        /\ ran \in [AbmJobs -> Nat] /\ (j \notin asked_abm => ran[j] = 0)
    BY DEF AbmInv, AbmBooks, AbmTypes
  <2>4. CASE UNCHANGED <<asked_abm, ran, AbmPending>>
    BY <2>1, <2>2, <2>4
  <2>5. CASE /\ ran' = ran /\ asked_abm \subseteq asked_abm'
             /\ AbmPending' = AbmPending \union (asked_abm' \ asked_abm)
    BY <2>1, <2>2, <2>3, <2>5 DEF AbmService!Submit
  <2>6. CASE \E k \in AbmPending : /\ asked_abm' = asked_abm /\ ran' = [ran EXCEPT ![k] = @ + 1]
                                   /\ AbmPending' = AbmPending \ {k}
    <3>1. PICK k \in AbmPending : /\ asked_abm' = asked_abm /\ ran' = [ran EXCEPT ![k] = @ + 1]
                                  /\ AbmPending' = AbmPending \ {k}
      BY <2>6
    <3>2. CASE j = k
      <4>1. ran'[j] = 1 /\ j \in asked_abm /\ ran[j] = 0
        BY <2>3, <3>1, <3>2
      <4>2. QED
        BY <2>1, <2>2, <3>1, <3>2, <4>1 DEF AbmService!Answer
    <3>3. CASE j # k
      <4>1. ran'[j] = ran[j] /\ (j \in AbmPending' <=> j \in AbmPending)
        BY <2>3, <3>1, <3>3
      <4>2. QED
        BY <2>1, <2>2, <3>1, <4>1
    <3>4. QED
      BY <3>2, <3>3
  <2>7. CASE /\ UNCHANGED <<asked_abm, ran>>
             /\ AbmPending' \subseteq AbmPending /\ AbmPending \ AbmPending' \subseteq abmExcuse'
    BY <2>1, <2>2, <2>3, <2>7 DEF AbmService!Drop
  <2>8. QED
    BY <2>4, <2>5, <2>6, <2>7 DEF AbmNewStatus
<1>3. QED
  BY <1>1, <1>2 DEF AbmService!Next

LEMMA AbmSame ==
  ASSUME UNCHANGED abmVars
  PROVE  AbmStatus' = AbmStatus /\ abmExcuse' = abmExcuse
<1>1. UNCHANGED <<queueing, ABM_MapBlocks, abmt, triggeringluatoapply, using, asked_abm, ran, abmExcuse>>
  BY DEF abmVars
<1>2. InAbmEngine' = InAbmEngine
  BY <1>1 DEF InAbmEngine
<1>3. QED
  BY <1>1, <1>2 DEF AbmStatus

LEMMA AbmMoves ==
  ASSUME [WorkersNext]_workersVars
  PROVE  [AbmNext]_abmVars
<1>1. CASE WorkersNext
  BY <1>1 DEF WorkersNext, AbmPart, AsyncPart, HttpPart, MeshPart, MediaPart, EmergePart, PeersPart
<1>2. CASE UNCHANGED workersVars
  BY <1>2 DEF workersVars
<1>3. QED
  BY <1>1, <1>2

LEMMA AbmAlways == WorkersSpec => []AbmInv
<1>1. WorkersInit => AbmInv
  BY AbmBegins DEF WorkersInit
<1>2. AbmInv /\ [WorkersNext]_workersVars => AbmInv'
  BY AbmMoves, AbmKeeps
<1>3. QED
  BY <1>1, <1>2, PTL DEF WorkersSpec

(* A block that was queued is looked at by one worker, and what it finds   *)
(* is run once: of ABME_Threading and ABMT_Threading, for any number of    *)
(* workers, blocks and batches.  A job is lost only when the block was     *)
(* deleted or the trigger freed before it was run.                         *)
THEOREM WorkersDoEachBlockOnce == WorkersSpec => EachBlockOnce
<1>1. WorkersInit => AbmService!Init
  <2> SUFFICES ASSUME WorkersInit PROVE AbmService!Init
    OBVIOUS
  <2>1. AbmInv /\ asked_abm = {}
    BY AbmBegins DEF WorkersInit, AbmInit
  <2>2. QED
    BY <2>1, AbmStatusKnown DEF AbmStatusIs, AbmService!Init
<1>2. AbmInv /\ AbmStatusIs /\ AbmStatusIs' /\ [WorkersNext]_workersVars
        => [AbmService!Next]_<<AbmStatus, abmExcuse>>
  <2> SUFFICES ASSUME AbmInv, AbmStatusIs, AbmStatusIs', [WorkersNext]_workersVars
               PROVE  [AbmService!Next]_<<AbmStatus, abmExcuse>>
    OBVIOUS
  <2>1. AbmNewStatus \/ UNCHANGED abmVars
    BY AbmMoves, AbmKeeps
  <2>2. CASE AbmNewStatus
    BY <2>2, AbmImplementsJobs
  <2>3. CASE UNCHANGED abmVars
    BY <2>3, AbmSame
  <2>4. QED
    BY <2>1, <2>2, <2>3
<1>3. QED
  BY <1>1, <1>2, AbmAlways, AbmStatusKnown, PTL DEF WorkersSpec, EachBlockOnce, AbmService!Spec

-----------------------------------------------------------------------------
(* Asynchronous jobs: a job is in one place until its handler was called.  *)

AsyncHeld == {asyncw[w].job : w \in AsyncWorkers} \ {NoJob}

AsyncPending == ToSet(jobQueue) \union ToSet(resultQueue) \union AsyncHeld

AsyncExcused == IF asyncStop = {} THEN failed ELSE JobIds

HasJob == {"got", "put"}
AsyncWorkerType == [pc : {"new", "loop", "wait", "pop", "got", "put", "ended"},
                    job : JobIds \union {NoJob}]

Holders ==
  /\ asyncw \in [AsyncWorkers -> AsyncWorkerType]
  /\ \A w \in AsyncWorkers : asyncw[w].job # NoJob <=> asyncw[w].pc \in HasJob
  /\ \A v, w \in AsyncWorkers :
       asyncw[v].job # NoJob /\ asyncw[v].job = asyncw[w].job => v = w

AsyncOnePlace ==
  /\ Once(jobQueue) /\ Once(resultQueue)
  /\ ToSet(jobQueue) \cap ToSet(resultQueue) = {}
  /\ ToSet(jobQueue) \cap AsyncHeld = {}
  /\ ToSet(resultQueue) \cap AsyncHeld = {}

AsyncBooks ==
  /\ \A j \in AsyncPending : j \in JobIds /\ j <= jobIdCounter /\ handled[j] = 0
  /\ \A j \in JobIds : handled[j] = 0 \/ (handled[j] = 1 /\ j <= jobIdCounter)

AsyncInv == AsyncTypeOK /\ Holders /\ AsyncOnePlace /\ AsyncBooks

(* What a step does to the jobs.                                           *)
AsyncNewStatus ==
  \/ UNCHANGED <<jobIdCounter, handled, AsyncPending>>
  \/ /\ handled' = handled /\ jobIdCounter' = jobIdCounter + 1
     /\ AsyncPending' = AsyncPending \union {jobIdCounter'}
  \/ \E S \in SUBSET AsyncPending :
       /\ jobIdCounter' = jobIdCounter /\ AsyncPending' = AsyncPending \ S
       /\ handled' = [j \in JobIds |-> IF j \in S THEN handled[j] + 1 ELSE handled[j]]
  \/ /\ UNCHANGED <<jobIdCounter, handled>>
     /\ AsyncPending' \subseteq AsyncPending
     /\ AsyncPending \ AsyncPending' \subseteq AsyncExcused'

LEMMA AsyncBooksKept ==
  ASSUME AsyncInv, AsyncNewStatus, AsyncTypeOK'
  PROVE  AsyncBooks'
<1>1. /\ handled \in [JobIds -> Nat] /\ jobIdCounter \in Nat /\ jobIdCounter' \in 0 .. MaxJobs
      /\ MaxJobs \in Nat /\ AsyncBooks
  BY AsyncEngineAssumption DEF AsyncInv, AsyncTypeOK
<1>2. CASE UNCHANGED <<jobIdCounter, handled, AsyncPending>>
  BY <1>1, <1>2 DEF AsyncBooks
<1>3. CASE /\ handled' = handled /\ jobIdCounter' = jobIdCounter + 1
           /\ AsyncPending' = AsyncPending \union {jobIdCounter'}
  <2>1. jobIdCounter' \in JobIds /\ handled[jobIdCounter'] = 0
    BY <1>1, <1>3 DEF AsyncBooks, JobIds
  <2>2. \A j \in JobIds : j <= jobIdCounter => j <= jobIdCounter'
    BY <1>1, <1>3 DEF JobIds
  <2>3. jobIdCounter' <= jobIdCounter'
    BY <1>1
  <2>4. \A j \in AsyncPending' : j \in JobIds /\ j <= jobIdCounter' /\ handled'[j] = 0
    <3>1. \A j \in AsyncPending : j \in JobIds /\ j <= jobIdCounter' /\ handled[j] = 0
      BY <1>1, <2>2 DEF AsyncBooks
    <3>2. handled' = handled /\ AsyncPending' = AsyncPending \union {jobIdCounter'}
      BY <1>3
    <3> HIDE DEF AsyncPending
    <3>3. QED
      BY <2>1, <2>3, <3>1, <3>2
  <2>5. \A j \in JobIds : handled'[j] = 0 \/ (handled'[j] = 1 /\ j <= jobIdCounter')
    BY <1>1, <1>3, <2>2 DEF AsyncBooks
  <2>6. QED
    BY <2>4, <2>5 DEF AsyncBooks
<1>4. CASE \E S \in SUBSET AsyncPending :
             /\ jobIdCounter' = jobIdCounter /\ AsyncPending' = AsyncPending \ S
             /\ handled' = [j \in JobIds |-> IF j \in S THEN handled[j] + 1 ELSE handled[j]]
  <2>1. PICK S \in SUBSET AsyncPending :
             /\ jobIdCounter' = jobIdCounter /\ AsyncPending' = AsyncPending \ S
             /\ handled' = [j \in JobIds |-> IF j \in S THEN handled[j] + 1 ELSE handled[j]]
    BY <1>4
  <2>2. \A j \in JobIds : handled'[j] = IF j \in S THEN 1 ELSE handled[j]
    BY <1>1, <2>1 DEF AsyncBooks
  <2>3. QED
    BY <1>1, <2>1, <2>2 DEF AsyncBooks
<1>5. CASE UNCHANGED <<jobIdCounter, handled>> /\ AsyncPending' \subseteq AsyncPending
  BY <1>1, <1>5 DEF AsyncBooks
<1>6. QED
  BY <1>2, <1>3, <1>4, <1>5 DEF AsyncNewStatus

(* A worker takes a job, keeps it or is through with it.                   *)
LEMMA HolderMoves ==
  ASSUME Holders, NEW w \in AsyncWorkers, NEW r \in AsyncWorkerType,
         asyncw' = [asyncw EXCEPT ![w] = r], r.job # NoJob <=> r.pc \in HasJob,
         r.job \in {NoJob, asyncw[w].job} \/ r.job \notin AsyncHeld
  PROVE  Holders' /\ AsyncHeld' = (AsyncHeld \ {asyncw[w].job}) \union ({r.job} \ {NoJob})
<1>1. /\ asyncw' \in [AsyncWorkers -> AsyncWorkerType]
      /\ asyncw'[w] = r /\ \A v \in AsyncWorkers \ {w} : asyncw'[v] = asyncw[v]
  BY DEF Holders
<1>2. \A v \in AsyncWorkers \ {w} : asyncw[v].job # NoJob => asyncw[v].job # asyncw[w].job
  BY DEF Holders
<1>3. \A v \in AsyncWorkers \ {w} : asyncw[v].job # NoJob => asyncw[v].job # r.job
  BY <1>2 DEF AsyncHeld
<1>4. Holders'
  BY <1>1, <1>3 DEF Holders
<1>5. ASSUME NEW j \in AsyncHeld' PROVE j \in (AsyncHeld \ {asyncw[w].job}) \union ({r.job} \ {NoJob})
  <2>1. PICK v \in AsyncWorkers : asyncw'[v].job = j /\ j # NoJob
    BY <1>5 DEF AsyncHeld
  <2>2. CASE v = w
    BY <1>1, <2>1, <2>2
  <2>3. CASE v # w
    BY <1>1, <1>2, <2>1, <2>3 DEF AsyncHeld
  <2>4. QED
    BY <2>2, <2>3
<1>6. ASSUME NEW j \in AsyncHeld \ {asyncw[w].job} PROVE j \in AsyncHeld'
  <2>1. PICK v \in AsyncWorkers : asyncw[v].job = j /\ j # NoJob
    BY <1>6 DEF AsyncHeld
  <2>2. v # w /\ asyncw'[v].job = j
    BY <1>1, <1>6, <2>1
  <2>3. QED
    BY <2>1, <2>2 DEF AsyncHeld
<1>7. ASSUME r.job # NoJob PROVE r.job \in AsyncHeld'
  BY <1>1, <1>7 DEF AsyncHeld
<1>8. QED
  BY <1>4, <1>5, <1>6, <1>7

LEMMA HoldersSame ==
  ASSUME asyncw' = asyncw
  PROVE  AsyncHeld' = AsyncHeld /\ (Holders' <=> Holders)
BY DEF AsyncHeld, Holders

(* How often a job stands in a queue without repetition.                   *)
LEMMA CountOnce ==
  ASSUME NEW S, NEW s \in Seq(S), Once(s), NEW j
  PROVE  Cardinality({n \in DOMAIN s : s[n] = j}) = IF j \in ToSet(s) THEN 1 ELSE 0
<1>1. ToSet(s) = {s[i] : i \in 1 .. Len(s)} /\ DOMAIN s = 1 .. Len(s)
  BY QueueSet
<1>2. CASE j \in ToSet(s)
  <2>1. PICK i \in 1 .. Len(s) : s[i] = j
    BY <1>1, <1>2
  <2>2. {n \in DOMAIN s : s[n] = j} = {i}
    BY <1>1, <2>1 DEF Once
  <2>3. QED
    BY <1>2, <2>2, FS_Singleton
<1>3. CASE j \notin ToSet(s)
  <2>1. {n \in DOMAIN s : s[n] = j} = {}
    BY <1>1, <1>3
  <2>2. QED
    BY <1>3, <2>1, FS_EmptySet
<1>4. QED
  BY <1>2, <1>3

(* The server thread queues a job.                                         *)
LEMMA QueueJobKeeps ==
  ASSUME AsyncInv, queueAsyncJob
  PROVE  AsyncInv' /\ AsyncNewStatus
<1> DEFINE c == jobIdCounter + 1
<1>1. /\ jobIdCounter \in Nat /\ MaxJobs \in Nat /\ jobIdCounter < MaxJobs
      /\ jobQueue \in Seq(JobIds) /\ jobQueueCounter \in Nat
  BY AsyncEngineAssumption DEF AsyncInv, AsyncTypeOK, queueAsyncJob
<1>2. c \in JobIds /\ ~(c <= jobIdCounter) /\ c \in 0 .. MaxJobs
  BY <1>1 DEF JobIds
<1>3. c \notin AsyncPending
  BY <1>2 DEF AsyncInv, AsyncBooks
<1>4. jobIdCounter' = c /\ jobQueue' = Append(jobQueue, c) /\ jobQueueCounter' = jobQueueCounter + 1
  BY DEF queueAsyncJob
<1>5. UNCHANGED <<resultQueue, asyncw, autoscaleSeenJobs, autoscaleTimer, asyncStop, handled, failed>>
  BY DEF queueAsyncJob, scaleVars
<1>6. /\ jobQueue' \in Seq(JobIds) /\ ToSet(jobQueue') = ToSet(jobQueue) \union {c}
      /\ Once(jobQueue')
  BY <1>1, <1>2, <1>3, <1>4, PutLast DEF AsyncInv, AsyncOnePlace, AsyncPending
<1>7. jobQueueCounter' \in Nat
  BY <1>1, <1>4
<1> HIDE DEF c
<1>8. AsyncHeld' = AsyncHeld /\ Holders'
  BY <1>5, HoldersSame DEF AsyncInv
<1>9. AsyncTypeOK'
  BY <1>2, <1>4, <1>5, <1>6, <1>7 DEF AsyncInv, AsyncTypeOK
<1>10. AsyncOnePlace'
  BY <1>3, <1>5, <1>6, <1>8 DEF AsyncInv, AsyncOnePlace, AsyncPending
<1>11. AsyncNewStatus
  <2>1. AsyncPending' = AsyncPending \union {jobIdCounter'}
    BY <1>4, <1>5, <1>6, <1>8 DEF AsyncPending
  <2>2. QED
    BY <1>4, <1>5, <2>1 DEF AsyncNewStatus, c
<1>12. QED
  BY <1>8, <1>9, <1>10, <1>11, AsyncBooksKept DEF AsyncInv

(* It calls the handlers for all the results there are.                    *)
LEMMA JobResultsKeep ==
  ASSUME AsyncInv, stepJobResults
  PROVE  AsyncInv' /\ AsyncNewStatus
<1> DEFINE S == ToSet(resultQueue)
<1>1. UNCHANGED <<jobIdCounter, jobQueue, jobQueueCounter, asyncw, autoscaleSeenJobs,
                  autoscaleTimer, asyncStop, failed>>
  BY DEF stepJobResults, scaleVars
<1>2. resultQueue' = <<>> /\ ToSet(resultQueue') = {} /\ Once(resultQueue')
  BY EmptyQueue DEF stepJobResults
<1>3. handled' = [j \in JobIds |-> IF j \in S THEN handled[j] + 1 ELSE handled[j]]
  <2>1. /\ resultQueue \in Seq(JobIds) /\ Once(resultQueue)
        /\ \A j \in JobIds : handled[j] \in Nat
    BY DEF AsyncInv, AsyncTypeOK, AsyncOnePlace
  <2>2. \A j : Cardinality({n \in DOMAIN resultQueue : resultQueue[n] = j})
               = IF j \in S THEN 1 ELSE 0
    BY <2>1, CountOnce
  <2> HIDE DEF S
  <2>3. \A j \in JobIds : handled[j] + Cardinality({n \in DOMAIN resultQueue : resultQueue[n] = j})
                          = IF j \in S THEN handled[j] + 1 ELSE handled[j]
    <3> SUFFICES ASSUME NEW j \in JobIds
                 PROVE  handled[j] + Cardinality({n \in DOMAIN resultQueue : resultQueue[n] = j})
                          = IF j \in S THEN handled[j] + 1 ELSE handled[j]
      OBVIOUS
    <3>1. Cardinality({n \in DOMAIN resultQueue : resultQueue[n] = j}) = IF j \in S THEN 1 ELSE 0
      BY <2>2
    <3>2. handled[j] \in Nat
      BY <2>1
    <3>3. CASE j \in S
      BY <3>1, <3>2, <3>3
    <3>4. CASE j \notin S
      BY <3>1, <3>2, <3>4
    <3>5. QED
      BY <3>3, <3>4
  <2>4. QED
    BY <2>3 DEF stepJobResults
<1>4. S \subseteq AsyncPending /\ S \cap ToSet(jobQueue) = {} /\ S \cap AsyncHeld = {}
  BY DEF AsyncInv, AsyncOnePlace, AsyncPending
<1>5. AsyncHeld' = AsyncHeld /\ Holders'
  BY <1>1, HoldersSame DEF AsyncInv
<1>6. AsyncPending' = AsyncPending \ S
  BY <1>1, <1>2, <1>4, <1>5 DEF AsyncPending
<1> HIDE DEF S
<1>7. AsyncTypeOK'
  <2>1. handled' \in [JobIds -> Nat]
    <3>1. \A j \in JobIds : handled[j] \in Nat
      BY DEF AsyncInv, AsyncTypeOK
    <3>2. QED
      BY <1>3, <3>1
  <2>2. resultQueue' \in Seq(JobIds)
    BY <1>2
  <2>3. QED
    BY <1>1, <2>1, <2>2 DEF AsyncInv, AsyncTypeOK
<1>8. AsyncOnePlace'
  BY <1>1, <1>2, <1>5 DEF AsyncInv, AsyncOnePlace
<1>9. AsyncNewStatus
  BY <1>1, <1>3, <1>4, <1>6 DEF AsyncNewStatus
<1>10. QED
  BY <1>5, <1>7, <1>8, <1>9, AsyncBooksKept DEF AsyncInv

(* A second passes, or threads are added.                                  *)
LEMMA AutoscaleKeeps ==
  ASSUME AsyncInv, AutoscaleElapses \/ stepAutoscale
  PROVE  AsyncInv' /\ AsyncNewStatus
<1>1. UNCHANGED <<jobIdCounter, jobQueue, jobQueueCounter, resultQueue, asyncStop, handled, failed>>
  BY DEF AutoscaleElapses, stepAutoscale
<1>2. /\ autoscaleTimer' \in {"off", "on", "elapsed"}
      /\ autoscaleSeenJobs' \subseteq JobIds
  <2>1. ToSet(jobQueue) \subseteq JobIds /\ autoscaleSeenJobs \subseteq JobIds
    BY QueueSet DEF AsyncInv, AsyncTypeOK
  <2>2. QED
    BY <2>1 DEF AutoscaleElapses, stepAutoscale
<1>3. \/ asyncw' = asyncw
      \/ \E new \in SUBSET (AsyncWorkers \ Started) :
           asyncw' = [w \in AsyncWorkers |-> IF w \in new THEN AsyncWorker("loop") ELSE asyncw[w]]
  <2>1. CASE AutoscaleElapses
    BY <2>1 DEF AutoscaleElapses
  <2>2. CASE stepAutoscale
    BY <2>2 DEF stepAutoscale
  <2>3. QED
    BY <2>1, <2>2
<1>4. AsyncHeld' = AsyncHeld /\ Holders'
  <2>1. CASE asyncw' = asyncw
    BY <2>1, HoldersSame DEF AsyncInv
  <2>2. ASSUME NEW new \in SUBSET (AsyncWorkers \ Started),
               asyncw' = [w \in AsyncWorkers |->
                            IF w \in new THEN AsyncWorker("loop") ELSE asyncw[w]]
        PROVE  AsyncHeld' = AsyncHeld /\ Holders'
    <3>1. Holders
      BY DEF AsyncInv
    <3>2. \A w \in new : asyncw[w].pc = "new" /\ asyncw[w].job = NoJob
      BY <3>1 DEF Started, Holders, HasJob
    <3>3. AsyncWorker("loop") \in AsyncWorkerType
      BY DEF AsyncWorker, AsyncWorkerType
    <3>4. asyncw' \in [AsyncWorkers -> AsyncWorkerType]
      BY <2>2, <3>1, <3>3 DEF Holders
    <3>5. \A w \in AsyncWorkers :
             /\ asyncw'[w].job = asyncw[w].job
             /\ asyncw'[w].pc \in HasJob <=> asyncw[w].pc \in HasJob
      BY <2>2, <3>2 DEF AsyncWorker, HasJob
    <3>6. Holders'
      BY <3>1, <3>4, <3>5 DEF Holders
    <3>7. {asyncw'[w].job : w \in AsyncWorkers} = {asyncw[w].job : w \in AsyncWorkers}
      BY <3>5
    <3>8. QED
      BY <3>6, <3>7 DEF AsyncHeld
  <2>3. QED
    BY <1>3, <2>1, <2>2
<1>5. AsyncTypeOK'
  BY <1>1, <1>2, <1>4 DEF AsyncInv, AsyncTypeOK, Holders, AsyncWorkerType
<1>6. AsyncOnePlace'
  BY <1>1, <1>4 DEF AsyncInv, AsyncOnePlace
<1>7. AsyncNewStatus
  BY <1>1, <1>4 DEF AsyncNewStatus, AsyncPending
<1>8. QED
  BY <1>4, <1>5, <1>6, <1>7, AsyncBooksKept DEF AsyncInv

(* The threads are told to stop, and what is in the queue is dropped.      *)
LEMMA StopKeeps ==
  ASSUME AsyncInv, AsyncDestroyed \/ \E w \in AsyncWorkers : StopWorker(w)
  PROVE  AsyncInv' /\ AsyncNewStatus
<1>1. /\ UNCHANGED <<jobIdCounter, resultQueue, asyncw, autoscaleSeenJobs, autoscaleTimer,
                     handled, failed>>
      /\ asyncStop' \subseteq AsyncWorkers
  BY DEF AsyncDestroyed, StopWorker, scaleVars, Started, AsyncInv, AsyncTypeOK
<1>2. \/ jobQueue' = jobQueue
      \/ jobQueue' = <<>> /\ asyncStop' # {}
  BY DEF AsyncDestroyed, StopWorker
<1>3. jobQueueCounter' \in Nat
  <2>1. jobQueueCounter \in Nat
    BY DEF AsyncInv, AsyncTypeOK
  <2>2. Started \subseteq AsyncWorkers
    BY DEF Started
  <2>3. Cardinality(Started) \in Nat
    BY <2>2, AsyncEngineAssumption, FS_Subset, FS_CardinalityType
  <2>4. QED
    BY <2>1, <2>3 DEF AsyncDestroyed, StopWorker
<1>4. AsyncHeld' = AsyncHeld /\ Holders'
  BY <1>1, HoldersSame DEF AsyncInv
<1>5. /\ jobQueue' \in Seq(JobIds) /\ Once(jobQueue')
      /\ ToSet(jobQueue') \subseteq ToSet(jobQueue)
  <2>1. CASE jobQueue' = jobQueue
    BY <2>1 DEF AsyncInv, AsyncTypeOK, AsyncOnePlace
  <2>2. CASE jobQueue' = <<>>
    <3>1. ToSet(jobQueue') = {} /\ Once(jobQueue')
      BY <2>2, EmptyQueue
    <3>2. QED
      BY <2>2, <3>1
  <2>3. QED
    BY <1>2, <2>1, <2>2
<1>6. AsyncTypeOK'
  BY <1>1, <1>3, <1>5 DEF AsyncInv, AsyncTypeOK
<1>7. AsyncOnePlace'
  BY <1>1, <1>4, <1>5 DEF AsyncInv, AsyncOnePlace
<1>8. AsyncNewStatus
  <2>1. CASE jobQueue' = jobQueue
    BY <1>1, <1>4, <2>1 DEF AsyncNewStatus, AsyncPending
  <2>2. CASE asyncStop' # {}
    <3>1. AsyncPending \subseteq JobIds /\ AsyncExcused' = JobIds
      BY <2>2 DEF AsyncInv, AsyncBooks, AsyncExcused
    <3>2. AsyncPending' \subseteq AsyncPending
      BY <1>1, <1>4, <1>5 DEF AsyncPending
    <3>3. QED
      BY <1>1, <3>1, <3>2 DEF AsyncNewStatus
  <2>3. QED
    BY <1>2, <2>1, <2>2
<1>9. QED
  BY <1>4, <1>6, <1>7, <1>8, AsyncBooksKept DEF AsyncInv

(* A worker looks for a job.                                               *)
LEMMA NoJobMoves ==
  ASSUME AsyncInv, NEW w \in AsyncWorkers, EndsOrWaits(w) \/ getJob(w)
  PROVE  AsyncInv' /\ AsyncNewStatus
<1>1. /\ UNCHANGED <<jobIdCounter, jobQueue, resultQueue, autoscaleSeenJobs, autoscaleTimer,
                     asyncStop, handled, failed>>
  BY DEF EndsOrWaits, getJob, scaleVars
<1>2. jobQueueCounter' \in Nat
  BY DEF EndsOrWaits, getJob, AsyncInv, AsyncTypeOK
<1>3. asyncw[w] \in AsyncWorkerType /\ asyncw[w].job = NoJob
  BY DEF AsyncInv, Holders, EndsOrWaits, getJob, HasJob
<1>4. \E pc \in {"ended", "wait", "pop"} : asyncw' = [asyncw EXCEPT ![w] = AsyncWorker(pc)]
  <2>1. CASE EndsOrWaits(w)
    BY <2>1 DEF EndsOrWaits
  <2>2. CASE getJob(w)
    <3>1. [asyncw[w] EXCEPT !.pc = "pop"] = AsyncWorker("pop")
      BY <1>3 DEF AsyncWorker, AsyncWorkerType
    <3>2. asyncw' = [asyncw EXCEPT ![w] = [asyncw[w] EXCEPT !.pc = "pop"]]
      BY <2>2 DEF getJob
    <3>3. QED
      BY <3>1, <3>2
  <2>3. QED
    BY <2>1, <2>2
<1>5. PICK pc \in {"ended", "wait", "pop"} : asyncw' = [asyncw EXCEPT ![w] = AsyncWorker(pc)]
  BY <1>4
<1>6. AsyncWorker(pc) \in AsyncWorkerType /\ AsyncWorker(pc).job = NoJob /\ AsyncWorker(pc).pc \notin HasJob
  BY DEF AsyncWorker, AsyncWorkerType, HasJob
<1>7. Holders' /\ AsyncHeld' = (AsyncHeld \ {NoJob}) \union ({NoJob} \ {NoJob})
  BY <1>3, <1>5, <1>6, HolderMoves DEF AsyncInv
<1>8. AsyncHeld' = AsyncHeld
  BY <1>7 DEF AsyncHeld
<1>9. AsyncTypeOK'
  BY <1>1, <1>2, <1>7 DEF AsyncInv, AsyncTypeOK, Holders, AsyncWorkerType
<1>10. AsyncOnePlace'
  BY <1>1, <1>8 DEF AsyncInv, AsyncOnePlace
<1>11. AsyncNewStatus
  BY <1>1, <1>8 DEF AsyncNewStatus, AsyncPending
<1>12. QED
  BY <1>7, <1>9, <1>10, <1>11, AsyncBooksKept DEF AsyncInv

(* It takes the first of the queue, if there is one.                       *)
LEMMA PopJobKeeps ==
  ASSUME AsyncInv, NEW w \in AsyncWorkers, PopJob(w)
  PROVE  AsyncInv' /\ AsyncNewStatus
<1>1. /\ UNCHANGED <<jobIdCounter, jobQueueCounter, resultQueue, autoscaleSeenJobs,
                     autoscaleTimer, asyncStop, handled, failed>>
  BY DEF PopJob, scaleVars
<1>2. asyncw[w] \in AsyncWorkerType /\ asyncw[w].job = NoJob /\ NoJob \notin JobIds
  BY DEF AsyncInv, Holders, PopJob, HasJob, NoJob, JobIds
<1>3. CASE jobQueue = <<>>
  <2>1. [asyncw[w] EXCEPT !.pc = "loop"] = AsyncWorker("loop")
    BY <1>2 DEF AsyncWorker, AsyncWorkerType
  <2>2. asyncw' = [asyncw EXCEPT ![w] = AsyncWorker("loop")] /\ jobQueue' = jobQueue
    BY <1>3, <2>1 DEF PopJob
  <2>3. /\ AsyncWorker("loop") \in AsyncWorkerType /\ AsyncWorker("loop").job = NoJob
        /\ AsyncWorker("loop").pc \notin HasJob
    BY DEF AsyncWorker, AsyncWorkerType, HasJob
  <2>4. Holders' /\ AsyncHeld' = (AsyncHeld \ {NoJob}) \union ({NoJob} \ {NoJob})
    BY <1>2, <2>2, <2>3, HolderMoves DEF AsyncInv
  <2>5. AsyncHeld' = AsyncHeld
    BY <2>4 DEF AsyncHeld
  <2>6. AsyncTypeOK' /\ AsyncOnePlace'
    BY <1>1, <2>2, <2>4, <2>5
       DEF AsyncInv, AsyncTypeOK, Holders, AsyncWorkerType, AsyncOnePlace
  <2>7. AsyncNewStatus
    BY <1>1, <2>2, <2>5 DEF AsyncNewStatus, AsyncPending
  <2>8. QED
    BY <2>4, <2>6, <2>7, AsyncBooksKept DEF AsyncInv
<1>4. CASE jobQueue # <<>>
  <2> DEFINE h == Head(jobQueue)
             r == [pc |-> "got", job |-> h]
  <2>1. /\ h \in JobIds /\ jobQueue' \in Seq(JobIds)
        /\ ToSet(jobQueue) = ToSet(jobQueue') \union {h}
        /\ Once(jobQueue') /\ h \notin ToSet(jobQueue')
    <3>1. jobQueue \in Seq(JobIds) /\ Once(jobQueue)
      BY DEF AsyncInv, AsyncTypeOK, AsyncOnePlace
    <3>2. jobQueue' = Tail(jobQueue)
      BY <1>4 DEF PopJob
    <3>3. QED
      BY <1>4, <3>1, <3>2, TakeFirst
  <2>2. asyncw' = [asyncw EXCEPT ![w] = r]
    BY <1>4 DEF PopJob
  <2>3. r \in AsyncWorkerType /\ r.job = h /\ r.pc \in HasJob /\ h # NoJob
    BY <1>2, <2>1 DEF AsyncWorkerType, HasJob
  <2>4. h \notin AsyncHeld
    BY <2>1 DEF AsyncInv, AsyncOnePlace
  <2> HIDE DEF h, r
  <2>5. Holders' /\ AsyncHeld' = (AsyncHeld \ {NoJob}) \union ({h} \ {NoJob})
    BY <1>2, <2>2, <2>3, <2>4, HolderMoves DEF AsyncInv
  <2>6. AsyncHeld' = AsyncHeld \union {h}
    BY <2>3, <2>5 DEF AsyncHeld
  <2>7. AsyncTypeOK'
    BY <1>1, <2>1, <2>5 DEF AsyncInv, AsyncTypeOK, Holders, AsyncWorkerType
  <2>8. AsyncOnePlace'
    BY <1>1, <2>1, <2>6 DEF AsyncInv, AsyncOnePlace
  <2>9. AsyncNewStatus
    <3>1. AsyncPending' = AsyncPending
      BY <1>1, <2>1, <2>6 DEF AsyncPending
    <3>2. QED
      BY <1>1, <3>1 DEF AsyncNewStatus
  <2>10. QED
    BY <2>5, <2>7, <2>8, <2>9, AsyncBooksKept DEF AsyncInv
<1>5. QED
  BY <1>3, <1>4

(* It runs it, or drops it, or the job fails.                              *)
LEMMA RunJobKeeps ==
  ASSUME AsyncInv, NEW w \in AsyncWorkers, RunJob(w)
  PROVE  AsyncInv' /\ AsyncNewStatus
<1> DEFINE j == asyncw[w].job
<1>1. /\ UNCHANGED <<jobIdCounter, jobQueue, jobQueueCounter, resultQueue, autoscaleSeenJobs,
                     autoscaleTimer, asyncStop, handled>>
  BY DEF RunJob, scaleVars
<1>2. asyncw[w] \in AsyncWorkerType /\ j \in JobIds /\ j # NoJob
  BY DEF AsyncInv, Holders, RunJob, HasJob, AsyncWorkerType
<1>3. CASE asyncw' = [asyncw EXCEPT ![w].pc = "put"] /\ failed' = failed
  <2> DEFINE r == [asyncw[w] EXCEPT !.pc = "put"]
  <2>1. r \in AsyncWorkerType /\ r.job = j /\ r.pc \in HasJob
    BY <1>2 DEF AsyncWorkerType, HasJob
  <2>2. asyncw' = [asyncw EXCEPT ![w] = r]
    BY <1>3
  <2> HIDE DEF j, r
  <2>3. Holders' /\ AsyncHeld' = (AsyncHeld \ {j}) \union ({j} \ {NoJob})
    BY <1>2, <2>1, <2>2, HolderMoves DEF AsyncInv, j
  <2>4. j \in AsyncHeld
    BY <1>2 DEF AsyncHeld, j
  <2>5. AsyncHeld' = AsyncHeld
    BY <1>2, <2>3, <2>4
  <2>6. AsyncTypeOK' /\ AsyncOnePlace'
    BY <1>1, <1>3, <2>3, <2>5
       DEF AsyncInv, AsyncTypeOK, Holders, AsyncWorkerType, AsyncOnePlace
  <2>7. AsyncNewStatus
    BY <1>1, <2>5 DEF AsyncNewStatus, AsyncPending
  <2>8. QED
    BY <2>3, <2>6, <2>7, AsyncBooksKept DEF AsyncInv
<1>4. CASE /\ asyncw' = [asyncw EXCEPT ![w] = AsyncWorker("loop")]
           /\ \/ failed' = failed /\ w \in asyncStop
              \/ failed' = failed \union {j}
  <2>1. /\ AsyncWorker("loop") \in AsyncWorkerType /\ AsyncWorker("loop").job = NoJob
        /\ AsyncWorker("loop").pc \notin HasJob
    BY DEF AsyncWorker, AsyncWorkerType, HasJob
  <2>2. Holders' /\ AsyncHeld' = (AsyncHeld \ {j}) \union ({NoJob} \ {NoJob})
    BY <1>4, <2>1, HolderMoves DEF AsyncInv
  <2>3. AsyncHeld' = AsyncHeld \ {j}
    BY <2>2
  <2>4. j \in AsyncExcused' /\ failed' \subseteq JobIds
    BY <1>1, <1>2, <1>4 DEF AsyncExcused, AsyncInv, AsyncTypeOK
  <2> HIDE DEF j
  <2>5. AsyncTypeOK' /\ AsyncOnePlace'
    BY <1>1, <2>2, <2>3, <2>4
       DEF AsyncInv, AsyncTypeOK, Holders, AsyncWorkerType, AsyncOnePlace
  <2>6. AsyncNewStatus
    <3>1. AsyncPending' \subseteq AsyncPending /\ AsyncPending \ AsyncPending' \subseteq {j}
      BY <1>1, <2>3 DEF AsyncPending
    <3>2. QED
      BY <1>1, <2>4, <3>1 DEF AsyncNewStatus
  <2>7. QED
    BY <2>2, <2>5, <2>6, AsyncBooksKept DEF AsyncInv
<1>5. QED
  BY <1>3, <1>4 DEF RunJob

(* It puts the result into the queue.                                      *)
LEMMA PutJobResultKeeps ==
  ASSUME AsyncInv, NEW w \in AsyncWorkers, putJobResult(w)
  PROVE  AsyncInv' /\ AsyncNewStatus
<1> DEFINE j == asyncw[w].job
<1>1. /\ UNCHANGED <<jobIdCounter, jobQueue, jobQueueCounter, autoscaleSeenJobs,
                     autoscaleTimer, asyncStop, handled, failed>>
  BY DEF putJobResult, scaleVars
<1>2. j \in JobIds /\ j # NoJob
  BY DEF AsyncInv, Holders, putJobResult, HasJob, AsyncWorkerType
<1>3. j \in AsyncHeld
  BY <1>2 DEF AsyncHeld
<1>4. j \notin ToSet(resultQueue) /\ j \notin ToSet(jobQueue)
  BY <1>3 DEF AsyncInv, AsyncOnePlace
<1>5. /\ AsyncWorker("loop") \in AsyncWorkerType /\ AsyncWorker("loop").job = NoJob
      /\ AsyncWorker("loop").pc \notin HasJob
  BY DEF AsyncWorker, AsyncWorkerType, HasJob
<1>6. Holders' /\ AsyncHeld' = (AsyncHeld \ {j}) \union ({NoJob} \ {NoJob})
  BY <1>5, HolderMoves DEF AsyncInv, putJobResult
<1>7. /\ resultQueue' \in Seq(JobIds) /\ Once(resultQueue')
      /\ ToSet(resultQueue') = ToSet(resultQueue) \union {j}
  BY <1>2, <1>4, PutLast DEF AsyncInv, AsyncTypeOK, AsyncOnePlace, putJobResult
<1> HIDE DEF j
<1>8. AsyncHeld' = AsyncHeld \ {j}
  BY <1>6
<1>9. AsyncTypeOK'
  BY <1>1, <1>6, <1>7 DEF AsyncInv, AsyncTypeOK, Holders, AsyncWorkerType
<1>10. AsyncOnePlace'
  BY <1>1, <1>4, <1>7, <1>8 DEF AsyncInv, AsyncOnePlace
<1>11. AsyncNewStatus
  <2>1. AsyncPending' = AsyncPending
    BY <1>1, <1>3, <1>7, <1>8 DEF AsyncPending
  <2>2. QED
    BY <1>1, <2>1 DEF AsyncNewStatus
<1>12. QED
  BY <1>6, <1>9, <1>10, <1>11, AsyncBooksKept DEF AsyncInv

LEMMA AsyncSame ==
  ASSUME UNCHANGED asyncVars
  PROVE  AsyncStatus' = AsyncStatus /\ AsyncExcused' = AsyncExcused
<1>1. UNCHANGED <<jobIdCounter, jobQueue, resultQueue, asyncw, asyncStop, handled, failed>>
  BY DEF asyncVars
<1>2. InAsyncEngine' = InAsyncEngine
  BY <1>1 DEF InAsyncEngine
<1>3. QED
  BY <1>1, <1>2 DEF AsyncStatus, AsyncExcused

LEMMA AsyncKeeps ==
  ASSUME AsyncInv, [AsyncNext]_asyncVars
  PROVE  AsyncInv' /\ (AsyncNewStatus \/ UNCHANGED asyncVars)
<1>1. CASE UNCHANGED asyncVars
  <2>1. UNCHANGED <<jobIdCounter, jobQueue, jobQueueCounter, resultQueue, asyncw,
                    autoscaleSeenJobs, autoscaleTimer, asyncStop, handled, failed>>
    BY <1>1 DEF asyncVars
  <2>2. AsyncHeld' = AsyncHeld /\ Holders'
    BY <2>1, HoldersSame DEF AsyncInv
  <2>3. AsyncPending' = AsyncPending
    BY <2>1, <2>2 DEF AsyncPending
  <2>4. AsyncTypeOK' /\ AsyncOnePlace'
    BY <2>1, <2>2 DEF AsyncInv, AsyncTypeOK, AsyncOnePlace
  <2>5. AsyncBooks'
    BY <2>1, <2>3 DEF AsyncInv, AsyncBooks
  <2>6. QED
    BY <1>1, <2>2, <2>4, <2>5 DEF AsyncInv
<1>2. CASE queueAsyncJob
  BY <1>2, QueueJobKeeps
<1>3. CASE stepJobResults
  BY <1>3, JobResultsKeep
<1>4. CASE AutoscaleElapses \/ stepAutoscale
  BY <1>4, AutoscaleKeeps
<1>5. CASE AsyncDestroyed \/ \E w \in AsyncWorkers : StopWorker(w)
  BY <1>5, StopKeeps
<1>6. CASE \E w \in AsyncWorkers : AsyncWorkerNext(w)
  <2>1. PICK w \in AsyncWorkers : AsyncWorkerNext(w)
    BY <1>6
  <2>2. CASE EndsOrWaits(w) \/ getJob(w)
    BY <2>2, NoJobMoves
  <2>3. CASE PopJob(w)
    BY <2>3, PopJobKeeps
  <2>4. CASE RunJob(w)
    BY <2>4, RunJobKeeps
  <2>5. CASE putJobResult(w)
    BY <2>5, PutJobResultKeeps
  <2>6. QED
    BY <2>1, <2>2, <2>3, <2>4, <2>5 DEF AsyncWorkerNext
<1>7. QED
  BY <1>1, <1>2, <1>3, <1>4, <1>5, <1>6 DEF AsyncNext

LEMMA AsyncBegins ==
  ASSUME AsyncInit
  PROVE  AsyncInv
<1>1. \A w \in AsyncWorkers : asyncw[w] \in AsyncWorkerType /\ asyncw[w].job = NoJob
                              /\ asyncw[w].pc \notin HasJob
  BY DEF AsyncInit, AsyncWorker, AsyncWorkerType, HasJob
<1>2. asyncw \in [AsyncWorkers -> AsyncWorkerType]
  BY <1>1 DEF AsyncInit
<1>3. Holders /\ AsyncHeld = {}
  BY <1>1, <1>2 DEF Holders, AsyncHeld
<1>4. ToSet(jobQueue) = {} /\ ToSet(resultQueue) = {} /\ Once(jobQueue) /\ Once(resultQueue)
  BY EmptyQueue DEF AsyncInit
<1>5. AsyncTypeOK
  <2>1. jobIdCounter \in 0 .. MaxJobs
    BY AsyncEngineAssumption DEF AsyncInit
  <2>2. QED
    BY <1>2, <2>1 DEF AsyncInit, AsyncTypeOK, AsyncWorkerType
<1>6. AsyncOnePlace
  BY <1>3, <1>4 DEF AsyncOnePlace
<1>7. AsyncBooks
  BY <1>3, <1>4 DEF AsyncBooks, AsyncPending, AsyncInit
<1>8. QED
  BY <1>3, <1>5, <1>6, <1>7 DEF AsyncInv

AsyncStatusIs ==
  AsyncStatus = [j \in JobIds |-> IF j > jobIdCounter THEN "new"
                                  ELSE IF handled[j] = 1 THEN "answered"
                                  ELSE IF j \in AsyncPending THEN "pending" ELSE "dropped"]

LEMMA AsyncStatusKnown == AsyncInv => AsyncStatusIs
<1> SUFFICES ASSUME AsyncInv PROVE AsyncStatusIs
  OBVIOUS
<1>1. \A j \in JobIds : j \in InAsyncEngine <=> j \in AsyncPending
  BY DEF InAsyncEngine, AsyncPending, AsyncHeld, JobIds, NoJob
<1> DEFINE Stated(j) == CASE j > jobIdCounter    -> "new"
                          [] handled[j] = 1      -> "answered"
                          [] handled[j] > 1      -> "answered twice"
                          [] j \in InAsyncEngine -> "pending"
                          [] OTHER               -> "dropped"
           Known(j)  == IF j > jobIdCounter THEN "new" ELSE IF handled[j] = 1 THEN "answered"
                        ELSE IF j \in AsyncPending THEN "pending" ELSE "dropped"
<1>2. ASSUME NEW j \in JobIds
      PROVE  Stated(j) = Known(j)
  <2>0. j \in Int /\ jobIdCounter \in Int
    BY AsyncEngineAssumption DEF JobIds, AsyncInv, AsyncTypeOK
  <2>1. handled[j] = 1 => ~(j > jobIdCounter)
    BY <2>0 DEF AsyncInv, AsyncBooks
  <2>2. ~(handled[j] > 1) /\ (j \in InAsyncEngine <=> j \in AsyncPending)
    BY <1>1 DEF AsyncInv, AsyncBooks
  <2>3. j \in AsyncPending => ~(j > jobIdCounter) /\ handled[j] # 1
    BY <2>0 DEF AsyncInv, AsyncBooks
  <2>4. CASE j > jobIdCounter
    BY <2>1, <2>2, <2>3, <2>4
  <2>5. CASE ~(j > jobIdCounter) /\ handled[j] = 1
    BY <2>1, <2>2, <2>3, <2>5
  <2>6. CASE ~(j > jobIdCounter) /\ handled[j] # 1 /\ j \in AsyncPending
    BY <2>2, <2>6
  <2>7. CASE ~(j > jobIdCounter) /\ handled[j] # 1 /\ j \notin AsyncPending
    BY <2>2, <2>7
  <2>8. QED
    BY <2>4, <2>5, <2>6, <2>7
<1> HIDE DEF Stated, Known
<1>3. [j \in JobIds |-> Stated(j)] = [j \in JobIds |-> Known(j)]
  BY <1>2
<1>4. AsyncStatus = [j \in JobIds |-> Stated(j)]
  BY DEF AsyncStatus, Stated
<1>5. [j \in JobIds |-> Known(j)] = [j \in JobIds |-> IF j > jobIdCounter THEN "new"
                                  ELSE IF handled[j] = 1 THEN "answered"
                                  ELSE IF j \in AsyncPending THEN "pending" ELSE "dropped"]
  BY DEF Known
<1>6. QED
  BY <1>3, <1>4, <1>5 DEF AsyncStatusIs

LEMMA AsyncImplementsJobs ==
  ASSUME AsyncInv, AsyncStatusIs, AsyncStatusIs', AsyncNewStatus
  PROVE  AsyncService!Next
<1>1. DOMAIN AsyncStatus' = JobIds
  BY DEF AsyncStatusIs
<1>2. ASSUME NEW j \in JobIds
      PROVE  AsyncStatus'[j] = AsyncStatus[j] \/ AsyncService!Submit(j)
             \/ AsyncService!Answer(j) \/ AsyncService!Drop(j)
  <2>1. AsyncStatus[j] = IF j > jobIdCounter THEN "new" ELSE IF handled[j] = 1 THEN "answered"
                         ELSE IF j \in AsyncPending THEN "pending" ELSE "dropped"
    BY DEF AsyncStatusIs
  <2>2. AsyncStatus'[j] = IF j > jobIdCounter' THEN "new" ELSE IF handled'[j] = 1 THEN "answered"
                          ELSE IF j \in AsyncPending' THEN "pending" ELSE "dropped"
    BY DEF AsyncStatusIs
  <2>3. j \in Int /\ jobIdCounter \in Int
    BY AsyncEngineAssumption DEF JobIds, AsyncInv, AsyncTypeOK
  <2>4. /\ j \in AsyncPending => ~(j > jobIdCounter) /\ handled[j] = 0
        /\ handled[j] \in {0, 1} /\ (j > jobIdCounter => handled[j] = 0)
    BY <2>3 DEF AsyncInv, AsyncBooks
  <2>5. CASE UNCHANGED <<jobIdCounter, handled, AsyncPending>>
    BY <2>1, <2>2, <2>5
  <2>6. CASE /\ handled' = handled /\ jobIdCounter' = jobIdCounter + 1
             /\ AsyncPending' = AsyncPending \union {jobIdCounter'}
    <3>1. CASE j = jobIdCounter'
      <4>1. j > jobIdCounter /\ ~(j > jobIdCounter') /\ j \in AsyncPending' /\ handled'[j] = 0
        BY <2>3, <2>4, <2>6, <3>1
      <4>2. QED
        BY <2>1, <2>2, <4>1 DEF AsyncService!Submit
    <3>2. CASE j # jobIdCounter'
      <4>1. /\ j > jobIdCounter <=> j > jobIdCounter'
            /\ j \in AsyncPending <=> j \in AsyncPending'
        BY <2>3, <2>6, <3>2
      <4>2. QED
        BY <2>1, <2>2, <2>6, <4>1
    <3>3. QED
      BY <3>1, <3>2
  <2>7. CASE \E S \in SUBSET AsyncPending :
               /\ jobIdCounter' = jobIdCounter /\ AsyncPending' = AsyncPending \ S
               /\ handled' = [k \in JobIds |-> IF k \in S THEN handled[k] + 1 ELSE handled[k]]
    <3>1. PICK S \in SUBSET AsyncPending :
               /\ jobIdCounter' = jobIdCounter /\ AsyncPending' = AsyncPending \ S
               /\ handled' = [k \in JobIds |-> IF k \in S THEN handled[k] + 1 ELSE handled[k]]
      BY <2>7
    <3>2. CASE j \in S
      <4>1. handled'[j] = 1 /\ j \in AsyncPending
        BY <2>4, <3>1, <3>2
      <4>2. QED
        BY <2>1, <2>2, <2>4, <3>1, <4>1 DEF AsyncService!Answer
    <3>3. CASE j \notin S
      <4>1. handled'[j] = handled[j] /\ (j \in AsyncPending' <=> j \in AsyncPending)
        BY <3>1, <3>3
      <4>2. QED
        BY <2>1, <2>2, <3>1, <4>1
    <3>4. QED
      BY <3>2, <3>3
  <2>8. CASE /\ UNCHANGED <<jobIdCounter, handled>>
             /\ AsyncPending' \subseteq AsyncPending
             /\ AsyncPending \ AsyncPending' \subseteq AsyncExcused'
    BY <2>1, <2>2, <2>4, <2>8 DEF AsyncService!Drop, AsyncExcused
  <2>9. QED
    BY <2>5, <2>6, <2>7, <2>8 DEF AsyncNewStatus
<1>3. QED
  BY <1>1, <1>2 DEF AsyncService!Next

LEMMA AsyncMoves ==
  ASSUME [WorkersNext]_workersVars
  PROVE  [AsyncNext]_asyncVars
<1>1. CASE WorkersNext
  BY <1>1 DEF WorkersNext, AbmPart, AsyncPart, HttpPart, MeshPart, MediaPart, EmergePart, PeersPart
<1>2. CASE UNCHANGED workersVars
  BY <1>2 DEF workersVars
<1>3. QED
  BY <1>1, <1>2

LEMMA AsyncAlways == WorkersSpec => []AsyncInv
<1>1. WorkersInit => AsyncInv
  BY AsyncBegins DEF WorkersInit
<1>2. AsyncInv /\ [WorkersNext]_workersVars => AsyncInv'
  BY AsyncMoves, AsyncKeeps
<1>3. QED
  BY <1>1, <1>2, PTL DEF WorkersSpec

(* The handler of an asynchronous job is called once, for any number of    *)
(* jobs and threads (ScriptApiAsync, AsyncEngine).  It is not called only  *)
(* if the job raised an error or the engine was told to stop.              *)
THEOREM WorkersDoEachJobOnce == WorkersSpec => EachJobOnce
<1>1. WorkersInit => AsyncService!Init
  <2> SUFFICES ASSUME WorkersInit PROVE AsyncService!Init
    OBVIOUS
  <2>1. AsyncInv /\ jobIdCounter = 0
    BY AsyncBegins DEF WorkersInit, AsyncInit
  <2>2. \A j \in JobIds : j > jobIdCounter
    BY <2>1, AsyncEngineAssumption DEF JobIds
  <2>3. QED
    BY <2>1, <2>2, AsyncStatusKnown DEF AsyncStatusIs, AsyncService!Init
<1>2. AsyncInv /\ AsyncStatusIs /\ AsyncStatusIs' /\ [WorkersNext]_workersVars
        => [AsyncService!Next]_<<AsyncStatus, IF asyncStop = {} THEN failed ELSE JobIds>>
  <2> SUFFICES ASSUME AsyncInv, AsyncStatusIs, AsyncStatusIs', [WorkersNext]_workersVars
               PROVE  [AsyncService!Next]_<<AsyncStatus, IF asyncStop = {} THEN failed ELSE JobIds>>
    OBVIOUS
  <2>1. AsyncNewStatus \/ UNCHANGED asyncVars
    BY AsyncMoves, AsyncKeeps
  <2>2. CASE AsyncNewStatus
    BY <2>2, AsyncImplementsJobs
  <2>3. CASE UNCHANGED asyncVars
    BY <2>3, AsyncSame DEF AsyncExcused
  <2>4. QED
    BY <2>1, <2>2, <2>3
<1>3. QED
  BY <1>1, <1>2, AsyncAlways, AsyncStatusKnown, PTL DEF WorkersSpec, EachJobOnce, AsyncService!Spec

-----------------------------------------------------------------------------
(* HTTP requests.  A fetch is an entry, with the id it is for, of one of   *)
(* four places; whoever has that id asked for it.                          *)

Entries == [fetch : Fetches, id : CallerIds]
HttpRequests == [type : {"fetch", "clear", "wakeup"}, id : CallerIds \union {0},
                 fetch : Fetches \union {NoFetch}, event : SUBSET HttpUsers]

IsFor(r, o) == r.type = "fetch" /\ r.fetch = o.fetch /\ r.id = o.id

Requested == {o \in Entries : \E r \in ToSet(m_requests) : IsFor(r, o)}
Queued    == ToSet(m_queued_fetches)
Results   == {o \in Entries : o.fetch \in ToSet(g_httpfetch_results[o.id])}

HttpEntries == Requested \union Queued \union m_all_ongoing \union Results

Callers ==
  /\ caller \in [HttpUsers -> [id : CallerIds \union {0}, session : Nat, freeing : BOOLEAN]]
  /\ \A u \in HttpUsers : IF caller[u].id = 0 THEN caller[u] = NoCaller
                          ELSE caller[u].session \in 1 .. sessions
  /\ \A u, v \in HttpUsers :
       /\ caller[u].id # 0 /\ caller[u].id = caller[v].id => u = v
       /\ caller[u].session # 0 /\ caller[u].session = caller[v].session => u = v
  /\ callerIds \subseteq CallerIds
  /\ NoOrphanResults

(* A request for one place, then the next: of two requests the second is   *)
(* no fetch for an id that the first clears, and the first no fetch if the *)
(* second clears for nobody; and none is there twice.                      *)
Stale(r) == r.type = "clear" /\ r.event = {}

MayPrecede(r, q) ==
  /\ r.event # {} /\ q.type = "fetch" => r.id # q.id
  /\ r.type = "fetch" => ~Stale(q)
  /\ r.event # {} \/ r.type = "fetch" => r # q

RequestsInOrder(s) == \A i, k \in 1 .. Len(s) : i < k => MayPrecede(s[i], s[k])

HttpTypes ==
  /\ m_requests \in Seq(HttpRequests)
  /\ m_queued_fetches \in Seq(Entries) /\ m_all_ongoing \subseteq Entries
  /\ g_httpfetch_results \in [CallerIds -> Seq(Fetches)]
  /\ cleared \subseteq HttpUsers /\ sessions \in Nat
  /\ askedBy \in [Fetches -> Nat]
  /\ DOMAIN gotBy = Fetches

RequestOK(r) ==
  /\ IF r.type = "fetch" THEN r.fetch # NoFetch /\ r.id # 0 ELSE r.fetch = NoFetch
  /\ r.event # {} => /\ r.type = "clear"
                     /\ \E u \in HttpUsers : /\ r.event = {u} /\ u \notin cleared
                                             /\ caller[u].freeing /\ caller[u].id = r.id
  /\ Stale(r) => Queued = {} /\ m_all_ongoing = {}

Clearing ==
  /\ RequestsInOrder(m_requests) /\ \A r \in ToSet(m_requests) : RequestOK(r)
  /\ \A u \in cleared : /\ caller[u].freeing
                        /\ \A o \in Requested \union Queued \union m_all_ongoing : o.id # caller[u].id
  /\ curl = "off" => /\ Requested \union Queued \union m_all_ongoing = {}
                     /\ \A r \in ToSet(m_requests) : r.event = {}

Owned(o) == \E u \in HttpUsers : caller[u].id = o.id /\ caller[u].session = askedBy[o.fetch]

HttpOnePlace ==
  /\ Once(m_queued_fetches) /\ \A c \in CallerIds : Once(g_httpfetch_results[c])
  /\ Requested \cap Queued = {} /\ Requested \cap m_all_ongoing = {} /\ Requested \cap Results = {}
  /\ Queued \cap m_all_ongoing = {} /\ Queued \cap Results = {} /\ m_all_ongoing \cap Results = {}

HttpBooks ==
  /\ \A o \in HttpEntries : Owned(o) /\ gotBy[o.fetch] = <<>>
  /\ \A f \in Fetches :
       gotBy[f] = <<>> \/ (askedBy[f] # Nobody /\ gotBy[f] = <<askedBy[f]>>)

HttpInv == HttpTypes /\ Callers /\ Clearing /\ HttpOnePlace /\ HttpBooks

HttpExcused == IF curlStop THEN Fetches ELSE Unwanted

(* What a step does to the fetches.                                        *)
HttpNewStatus ==
  \/ UNCHANGED <<askedBy, gotBy, HttpEntries>>
  \/ \E o \in Entries, s \in Nat \ {0} :
       /\ askedBy[o.fetch] = Nobody /\ askedBy' = [askedBy EXCEPT ![o.fetch] = s]
       /\ gotBy' = gotBy /\ HttpEntries' = HttpEntries \union {o}
  \/ \E o \in HttpEntries :
       /\ gotBy' = [gotBy EXCEPT ![o.fetch] = <<askedBy[o.fetch]>>]
       /\ askedBy' = askedBy /\ HttpEntries' = HttpEntries \ {o}
  \/ /\ UNCHANGED <<askedBy, gotBy>>
     /\ HttpEntries' \subseteq HttpEntries
     /\ \A o \in HttpEntries \ HttpEntries' : o.fetch \in HttpExcused'

LEMMA TakeRequest ==
  ASSUME NEW S, NEW s \in Seq(S), s # <<>>, RequestsInOrder(s)
  PROVE  RequestsInOrder(Tail(s)) /\ \A r \in ToSet(Tail(s)) : MayPrecede(Head(s), r)
<1> DEFINE n == Len(s)
           t == Tail(s)
<1>1. t \in Seq(S) /\ n \in Nat \ {0} /\ Len(t) = n - 1 /\ Head(s) = s[1]
  OBVIOUS
<1>2. \A i \in 1 .. Len(t) : t[i] = s[i + 1]
  OBVIOUS
<1>3. ToSet(t) = {t[i] : i \in 1 .. Len(t)}
  BY <1>1, QueueSet
<1>4. \A i, k \in 1 .. n : i < k => MayPrecede(s[i], s[k])
  BY DEF RequestsInOrder
<1> HIDE DEF n, t
<1>5. \A i \in 1 .. Len(t) : i + 1 \in 1 .. n /\ 1 < i + 1
  BY <1>1
<1>6. RequestsInOrder(t)
  <2> SUFFICES ASSUME NEW i \in 1 .. Len(t), NEW k \in 1 .. Len(t), i < k
               PROVE  MayPrecede(t[i], t[k])
    BY DEF RequestsInOrder
  <2>1. i + 1 < k + 1
    BY <1>1
  <2>2. QED
    BY <1>2, <1>4, <1>5, <2>1
<1>7. \A i \in 1 .. Len(t) : MayPrecede(Head(s), t[i])
  BY <1>1, <1>2, <1>4, <1>5
<1>8. QED
  BY <1>3, <1>6, <1>7 DEF t

LEMMA PutRequest ==
  ASSUME NEW S, NEW s \in Seq(S), NEW e \in S, RequestsInOrder(s), \A r \in ToSet(s) : MayPrecede(r, e)
  PROVE  RequestsInOrder(Append(s, e))
<1> DEFINE n == Len(s)
           t == Append(s, e)
<1>1. n \in Nat /\ Len(t) = n + 1 /\ t[n + 1] = e
  OBVIOUS
<1>2. \A i \in 1 .. n : t[i] = s[i]
  OBVIOUS
<1>3. ToSet(s) = {s[i] : i \in 1 .. n}
  BY QueueSet
<1>4. \A i, k \in 1 .. n : i < k => MayPrecede(s[i], s[k])
  BY DEF RequestsInOrder
<1> HIDE DEF n, t
<1>5. ASSUME NEW i \in 1 .. n + 1, NEW k \in 1 .. n + 1, i < k
      PROVE  MayPrecede(t[i], t[k])
  <2>1. i \in 1 .. n
    BY <1>1, <1>5
  <2>2. CASE k \in 1 .. n
    BY <1>2, <1>4, <1>5, <2>1, <2>2
  <2>3. CASE k = n + 1
    BY <1>1, <1>2, <1>3, <2>1, <2>3
  <2>4. k \in 1 .. n \/ k = n + 1
    BY <1>1
  <2>5. QED
    BY <2>2, <2>3, <2>4
<1>6. QED
  BY <1>1, <1>5 DEF RequestsInOrder, t

(* Two entries of a fetch are the same.                                    *)
LEMMA OneEntry ==
  ASSUME Callers, NEW o \in Entries, NEW p \in Entries, Owned(o), Owned(p), o.fetch = p.fetch
  PROVE  o = p
<1>1. PICK u \in HttpUsers : caller[u].id = o.id /\ caller[u].session = askedBy[o.fetch]
  BY DEF Owned
<1>2. PICK v \in HttpUsers : caller[v].id = p.id /\ caller[v].session = askedBy[o.fetch]
  BY DEF Owned
<1>3. o.id # 0 /\ p.id # 0
  BY HttpFetchAssumption DEF Entries
<1>4. caller[u].session # 0
  BY <1>1, <1>3 DEF Callers
<1>5. u = v
  BY <1>1, <1>2, <1>4 DEF Callers
<1>6. o.id = p.id
  BY <1>1, <1>2, <1>5
<1>7. QED
  BY <1>6 DEF Entries

LEMMA HttpBooksKept ==
  ASSUME HttpInv, HttpNewStatus, \A o \in HttpEntries' : Owned(o)'
  PROVE  HttpBooks'
<1>1. /\ askedBy \in [Fetches -> Nat] /\ DOMAIN gotBy = Fetches /\ HttpBooks
      /\ \A o \in Entries : o.fetch \in Fetches
      /\ HttpEntries \subseteq Entries
  <2>1. /\ askedBy \in [Fetches -> Nat] /\ DOMAIN gotBy = Fetches /\ HttpBooks
        /\ m_queued_fetches \in Seq(Entries) /\ m_all_ongoing \subseteq Entries
    BY DEF HttpInv, HttpTypes
  <2>2. Queued \subseteq Entries
    BY <2>1, QueueSet DEF Queued
  <2>3. HttpEntries \subseteq Entries
    BY <2>1, <2>2 DEF HttpEntries, Requested, Results
  <2>4. QED
    BY <2>1, <2>3 DEF Entries
<1>2. \A o \in HttpEntries, p \in HttpEntries : o.fetch = p.fetch => o = p
  BY <1>1, OneEntry DEF HttpInv, HttpBooks
<1>3. \A o \in HttpEntries : askedBy[o.fetch] # Nobody
  <2> SUFFICES ASSUME NEW o \in HttpEntries PROVE askedBy[o.fetch] # Nobody
    OBVIOUS
  <2>1. PICK u \in HttpUsers : caller[u].id = o.id /\ caller[u].session = askedBy[o.fetch]
    BY <1>1 DEF HttpBooks, Owned
  <2>2. o.id # 0
    BY <1>1, HttpFetchAssumption DEF Entries
  <2>3. QED
    BY <2>1, <2>2 DEF HttpInv, Callers, Nobody
<1> DEFINE Got(f) == gotBy[f] = <<>> \/ (askedBy[f] # Nobody /\ gotBy[f] = <<askedBy[f]>>)
           NewGot(f) == gotBy'[f] = <<>> \/ (askedBy'[f] # Nobody /\ gotBy'[f] = <<askedBy'[f]>>)
<1>4. \A f \in Fetches : Got(f)
  BY <1>1 DEF HttpBooks
<1>5. (\A o \in HttpEntries' : gotBy'[o.fetch] = <<>>) /\ \A f \in Fetches : NewGot(f)
  <2>1. CASE /\ UNCHANGED <<askedBy, gotBy>> /\ HttpEntries' \subseteq HttpEntries
    BY <1>1, <1>4, <2>1 DEF HttpBooks
  <2>2. ASSUME NEW o \in Entries, NEW s \in Nat \ {0},
               askedBy[o.fetch] = Nobody, askedBy' = [askedBy EXCEPT ![o.fetch] = s],
               gotBy' = gotBy, HttpEntries' = HttpEntries \union {o}
        PROVE  (\A p \in HttpEntries' : gotBy'[p.fetch] = <<>>) /\ \A f \in Fetches : NewGot(f)
    <3>1. gotBy[o.fetch] = <<>>
      BY <1>1, <1>4, <2>2
    <3>2. \A p \in HttpEntries' : gotBy'[p.fetch] = <<>>
      BY <1>1, <2>2, <3>1 DEF HttpBooks
    <3>3. \A f \in Fetches : f # o.fetch => askedBy'[f] = askedBy[f]
      BY <1>1, <2>2
    <3>4. \A f \in Fetches : NewGot(f)
      BY <1>4, <2>2, <3>1, <3>3
    <3>5. QED
      BY <3>2, <3>4
  <2>3. ASSUME NEW o \in HttpEntries,
               gotBy' = [gotBy EXCEPT ![o.fetch] = <<askedBy[o.fetch]>>],
               askedBy' = askedBy, HttpEntries' = HttpEntries \ {o}
        PROVE  (\A p \in HttpEntries' : gotBy'[p.fetch] = <<>>) /\ \A f \in Fetches : NewGot(f)
    <3>1. \A f \in Fetches : gotBy'[f] = IF f = o.fetch THEN <<askedBy[o.fetch]>> ELSE gotBy[f]
      BY <1>1, <2>3
    <3>2. \A p \in HttpEntries' : p.fetch # o.fetch /\ p.fetch \in Fetches
      BY <1>1, <1>2, <2>3
    <3>3. \A p \in HttpEntries' : gotBy'[p.fetch] = <<>>
      BY <1>1, <2>3, <3>1, <3>2 DEF HttpBooks
    <3>4. \A f \in Fetches : NewGot(f)
      BY <1>3, <1>4, <2>3, <3>1
    <3>5. QED
      BY <3>3, <3>4
  <2>4. QED
    BY <2>1, <2>2, <2>3 DEF HttpNewStatus
<1>6. QED
  BY <1>5 DEF HttpBooks

(* The results of an id: one is put there, taken, or all are erased.       *)
LEMMA ResultsPut ==
  ASSUME HttpTypes, NEW o \in Entries, o \notin Results,
         \A c \in CallerIds : Once(g_httpfetch_results[c]),
         g_httpfetch_results' = [g_httpfetch_results EXCEPT ![o.id] = Append(@, o.fetch)]
  PROVE  /\ g_httpfetch_results' \in [CallerIds -> Seq(Fetches)]
         /\ Results' = Results \union {o}
         /\ \A c \in CallerIds : Once(g_httpfetch_results'[c])
<1> DEFINE s == g_httpfetch_results[o.id]
<1>1. o.id \in CallerIds /\ o.fetch \in Fetches /\ s \in Seq(Fetches) /\ Once(s)
  BY DEF Entries, HttpTypes
<1>2. o.fetch \notin ToSet(s)
  BY DEF Results
<1>3. /\ Append(s, o.fetch) \in Seq(Fetches) /\ Once(Append(s, o.fetch))
      /\ ToSet(Append(s, o.fetch)) = ToSet(s) \union {o.fetch}
  BY <1>1, <1>2, PutLast
<1>4. \A c \in CallerIds : g_httpfetch_results'[c] = IF c = o.id THEN Append(s, o.fetch)
                                                     ELSE g_httpfetch_results[c]
  BY <1>1 DEF HttpTypes
<1>5. /\ g_httpfetch_results' \in [CallerIds -> Seq(Fetches)]
      /\ \A c \in CallerIds : Once(g_httpfetch_results'[c])
  BY <1>1, <1>3, <1>4 DEF HttpTypes
<1>6. \A p \in Entries : p.fetch \in ToSet(g_httpfetch_results'[p.id])
                           <=> p.fetch \in ToSet(g_httpfetch_results[p.id]) \/ p = o
  <2> SUFFICES ASSUME NEW p \in Entries
               PROVE  p.fetch \in ToSet(g_httpfetch_results'[p.id])
                        <=> p.fetch \in ToSet(g_httpfetch_results[p.id]) \/ p = o
    OBVIOUS
  <2>1. p.id \in CallerIds
    BY DEF Entries
  <2>2. CASE p.id # o.id
    BY <1>4, <2>1, <2>2
  <2>3. CASE p.id = o.id
    <3>1. g_httpfetch_results'[p.id] = Append(s, o.fetch)
      BY <1>1, <1>4, <2>3
    <3>2. p.fetch = o.fetch <=> p = o
      BY <2>3 DEF Entries
    <3>3. QED
      BY <1>3, <2>3, <3>1, <3>2
  <2>4. QED
    BY <2>2, <2>3
<1>7. QED
  BY <1>5, <1>6 DEF Results

LEMMA ResultsTake ==
  ASSUME HttpTypes, NEW c \in CallerIds, g_httpfetch_results[c] # <<>>,
         \A d \in CallerIds : Once(g_httpfetch_results[d]),
         g_httpfetch_results' = [g_httpfetch_results EXCEPT ![c] = Tail(@)]
  PROVE  /\ g_httpfetch_results' \in [CallerIds -> Seq(Fetches)]
         /\ Ongoing(Head(g_httpfetch_results[c]), c) \in Results
         /\ Results' = Results \ {Ongoing(Head(g_httpfetch_results[c]), c)}
         /\ \A d \in CallerIds : Once(g_httpfetch_results'[d])
<1> DEFINE s == g_httpfetch_results[c]
           o == Ongoing(Head(s), c)
<1>1. s \in Seq(Fetches) /\ Once(s) /\ s # <<>>
  BY DEF HttpTypes
<1>2. /\ Head(s) \in Fetches /\ Tail(s) \in Seq(Fetches)
      /\ ToSet(s) = ToSet(Tail(s)) \union {Head(s)}
      /\ Once(Tail(s)) /\ Head(s) \notin ToSet(Tail(s))
  BY <1>1, TakeFirst
<1>3. o \in Entries /\ o.fetch = Head(s) /\ o.id = c
  BY <1>2 DEF Entries, Ongoing
<1>4. \A d \in CallerIds : g_httpfetch_results'[d] = IF d = c THEN Tail(s) ELSE g_httpfetch_results[d]
  BY DEF HttpTypes
<1>5. /\ g_httpfetch_results' \in [CallerIds -> Seq(Fetches)]
      /\ \A d \in CallerIds : Once(g_httpfetch_results'[d])
  BY <1>2, <1>4 DEF HttpTypes
<1>6. \A p \in Entries : p.fetch \in ToSet(g_httpfetch_results'[p.id])
                           <=> p.fetch \in ToSet(g_httpfetch_results[p.id]) /\ p # o
  <2> SUFFICES ASSUME NEW p \in Entries
               PROVE  p.fetch \in ToSet(g_httpfetch_results'[p.id])
                        <=> p.fetch \in ToSet(g_httpfetch_results[p.id]) /\ p # o
    OBVIOUS
  <2>1. p.id \in CallerIds
    BY DEF Entries
  <2>2. CASE p.id # c
    BY <1>3, <1>4, <2>1, <2>2
  <2>3. CASE p.id = c
    <3>1. g_httpfetch_results'[p.id] = Tail(s)
      BY <1>4, <2>3
    <3>2. p.fetch = Head(s) <=> p = o
      BY <1>3, <2>3 DEF Entries
    <3>3. QED
      BY <1>2, <2>3, <3>1, <3>2
  <2>4. QED
    BY <2>2, <2>3
<1>7. o \in Results
  BY <1>2, <1>3 DEF Results
<1>8. QED
  BY <1>5, <1>6, <1>7 DEF Results

LEMMA ResultsErase ==
  ASSUME HttpTypes, NEW c \in CallerIds,
         \A d \in CallerIds : Once(g_httpfetch_results[d]),
         g_httpfetch_results' = [g_httpfetch_results EXCEPT ![c] = <<>>]
  PROVE  /\ g_httpfetch_results' \in [CallerIds -> Seq(Fetches)]
         /\ Results' = {o \in Results : o.id # c}
         /\ \A d \in CallerIds : Once(g_httpfetch_results'[d])
<1>1. \A d \in CallerIds : g_httpfetch_results'[d] = IF d = c THEN <<>> ELSE g_httpfetch_results[d]
  BY DEF HttpTypes
<1>2. /\ g_httpfetch_results' \in [CallerIds -> Seq(Fetches)]
      /\ \A d \in CallerIds : Once(g_httpfetch_results'[d])
  BY <1>1, EmptyQueue DEF HttpTypes
<1>3. \A p \in Entries : p.fetch \in ToSet(g_httpfetch_results'[p.id])
                           <=> p.fetch \in ToSet(g_httpfetch_results[p.id]) /\ p.id # c
  <2> SUFFICES ASSUME NEW p \in Entries
               PROVE  p.fetch \in ToSet(g_httpfetch_results'[p.id])
                        <=> p.fetch \in ToSet(g_httpfetch_results[p.id]) /\ p.id # c
    OBVIOUS
  <2>1. p.id \in CallerIds
    BY DEF Entries
  <2>2. CASE p.id # c
    BY <1>1, <2>1, <2>2
  <2>3. CASE p.id = c
    <3>1. ToSet(g_httpfetch_results'[p.id]) = {}
      BY <1>1, <2>3, EmptyQueue
    <3>2. QED
      BY <2>3, <3>1
  <2>4. QED
    BY <2>2, <2>3
<1>4. QED
  BY <1>2, <1>3 DEF Results

(* The requests: one more, or one less.                                    *)
LEMMA RequestPut ==
  ASSUME HttpTypes, NEW e \in HttpRequests, RequestsInOrder(m_requests),
         \A r \in ToSet(m_requests) : MayPrecede(r, e),
         m_requests' = Append(m_requests, e)
  PROVE  /\ m_requests' \in Seq(HttpRequests) /\ RequestsInOrder(m_requests')
         /\ ToSet(m_requests') = ToSet(m_requests) \union {e}
         /\ Requested' = Requested \union {o \in Entries : IsFor(e, o)}
<1>1. m_requests \in Seq(HttpRequests)
  BY DEF HttpTypes
<1>2. /\ m_requests' \in Seq(HttpRequests) /\ RequestsInOrder(m_requests')
      /\ ToSet(m_requests') = ToSet(m_requests) \union {e}
  BY <1>1, PutLast, PutRequest
<1>3. QED
  BY <1>2 DEF Requested

LEMMA RequestTaken ==
  ASSUME HttpTypes, Clearing, m_requests # <<>>, m_requests' = Tail(m_requests)
  PROVE  /\ m_requests' \in Seq(HttpRequests) /\ RequestsInOrder(m_requests')
         /\ Head(m_requests) \in ToSet(m_requests) /\ Head(m_requests) \in HttpRequests
         /\ ToSet(m_requests') \subseteq ToSet(m_requests)
         /\ \A r \in ToSet(m_requests') : MayPrecede(Head(m_requests), r)
         /\ Requested = Requested' \union {o \in Entries : IsFor(Head(m_requests), o)}
         /\ \A o \in Requested' : ~IsFor(Head(m_requests), o)
<1> DEFINE h == Head(m_requests)
<1>1. m_requests \in Seq(HttpRequests) /\ RequestsInOrder(m_requests)
  BY DEF HttpTypes, Clearing
<1>2. /\ h \in HttpRequests /\ m_requests' \in Seq(HttpRequests)
      /\ ToSet(m_requests) = ToSet(m_requests') \union {h}
  BY <1>1, TakeFirst
<1>3. RequestsInOrder(m_requests') /\ \A r \in ToSet(m_requests') : MayPrecede(h, r)
  BY <1>1, TakeRequest
<1>4. Requested = Requested' \union {o \in Entries : IsFor(h, o)}
  BY <1>2 DEF Requested
<1>5. ASSUME NEW o \in Requested', IsFor(h, o) PROVE FALSE
  <2>1. PICK r \in ToSet(m_requests') : IsFor(r, o)
    BY DEF Requested
  <2>2. r \in HttpRequests /\ RequestOK(r) /\ RequestOK(h) /\ MayPrecede(h, r)
    BY <1>2, <1>3, QueueSet DEF Clearing
  <2>3. r.type = "fetch" /\ h.type = "fetch" /\ r.fetch = h.fetch /\ r.id = h.id
    BY <1>5, <2>1 DEF IsFor
  <2>4. r.event = {} /\ h.event = {}
    BY <2>2, <2>3 DEF RequestOK
  <2>5. r = h
    <3>1. r.type = h.type /\ r.id = h.id /\ r.fetch = h.fetch /\ r.event = h.event
      BY <2>3, <2>4
    <3>2. r \in HttpRequests /\ h \in HttpRequests
      BY <1>2, <2>2
    <3> HIDE DEF h
    <3>3. QED
      BY <3>1, <3>2 DEF HttpRequests
  <2>6. QED
    BY <2>2, <2>3, <2>5 DEF MayPrecede
<1>6. QED
  BY <1>2, <1>3, <1>4, <1>5

LEMMA RequestsSame ==
  ASSUME m_requests' = m_requests
  PROVE  Requested' = Requested
BY DEF Requested

LEMMA ResultsSame ==
  ASSUME g_httpfetch_results' = g_httpfetch_results
  PROVE  Results' = Results
BY DEF Results

LEMMA HttpEntryTypes ==
  ASSUME HttpTypes
  PROVE  /\ Requested \subseteq Entries /\ Queued \subseteq Entries /\ m_all_ongoing \subseteq Entries
         /\ Results \subseteq Entries /\ HttpEntries \subseteq Entries
         /\ \A o \in Entries : o.fetch \in Fetches /\ o.id \in CallerIds /\ o.id # 0
         /\ \A o \in Entries : o = Ongoing(o.fetch, o.id)
<1>1. Queued \subseteq Entries
  BY QueueSet DEF HttpTypes, Queued
<1>2. \A o \in Entries : o.id # 0
  BY HttpFetchAssumption DEF Entries
<1>3. \A o \in Entries : o.fetch \in Fetches /\ o.id \in CallerIds /\ o = Ongoing(o.fetch, o.id)
  BY DEF Entries, Ongoing
<1>4. QED
  BY <1>1, <1>2, <1>3 DEF HttpEntries, Requested, Results, HttpTypes

LEMMA OwnedSame ==
  ASSUME caller' = caller, askedBy' = askedBy
  PROVE  \A o : Owned(o)' <=> Owned(o)
BY DEF Owned

(* A thread allocates an id: nobody has it, so nothing is there for it.    *)
LEMMA AllocKeeps ==
  ASSUME HttpInv, NEW u \in HttpUsers, NEW c \in CallerIds, httpfetch_caller_alloc(u, c)
  PROVE  HttpInv' /\ HttpNewStatus
<1> DEFINE s == sessions + 1
<1>1. /\ UNCHANGED <<g_httpfetch_results, m_requests, curl, m_all_ongoing, m_queued_fetches,
                     cleared, curlStop, askedBy, gotBy>>
      /\ sessions' = s /\ callerIds' = callerIds \union {c} /\ c \notin callerIds
      /\ caller[u] = NoCaller
      /\ caller' = [caller EXCEPT ![u] = [id |-> c, session |-> s, freeing |-> FALSE]]
  BY DEF httpfetch_caller_alloc, curlVars
<1>2. /\ Requested' = Requested /\ Queued' = Queued /\ Results' = Results
      /\ HttpEntries' = HttpEntries
  BY <1>1, RequestsSame, ResultsSame DEF Queued, HttpEntries
<1>3. /\ caller[u].id = 0 /\ ~caller[u].freeing
      /\ caller'[u] = [id |-> c, session |-> s, freeing |-> FALSE]
      /\ \A v \in HttpUsers \ {u} : caller'[v] = caller[v]
      /\ c # 0 /\ sessions \in Nat /\ s \in Nat /\ s # 0
  BY <1>1, HttpFetchAssumption DEF HttpInv, Callers, HttpTypes, NoCaller
<1> HIDE DEF s
<1>4. Callers'
  <2>1. caller' \in [HttpUsers -> [id : CallerIds \union {0}, session : Nat, freeing : BOOLEAN]]
    BY <1>1, <1>3 DEF HttpInv, Callers
  <2>2. \A v \in HttpUsers \ {u} : caller[v].id # c
    BY <1>1, <1>3 DEF HttpInv, Callers, NoOrphanResults
  <2>3. \A v \in HttpUsers \ {u} : caller[v].session # s
    <3>1. \A v \in HttpUsers : caller[v].session = 0 \/ caller[v].session \in 1 .. sessions
      BY DEF HttpInv, Callers, NoCaller
    <3>2. s \notin 1 .. sessions
      BY <1>3 DEF s
    <3>3. QED
      BY <1>3, <3>1, <3>2
  <2>4. \A v \in HttpUsers : IF caller'[v].id = 0 THEN caller'[v] = NoCaller
                             ELSE caller'[v].session \in 1 .. sessions'
    <3>1. s \in 1 .. s /\ 1 .. sessions \subseteq 1 .. s
      BY <1>3 DEF s
    <3>2. QED
      BY <1>1, <1>3, <3>1 DEF HttpInv, Callers
  <2>5. \A v, w \in HttpUsers :
          /\ caller'[v].id # 0 /\ caller'[v].id = caller'[w].id => v = w
          /\ caller'[v].session # 0 /\ caller'[v].session = caller'[w].session => v = w
    BY <1>3, <2>2, <2>3 DEF HttpInv, Callers
  <2>6. NoOrphanResults'
    <3>1. callerIds = {caller[v].id : v \in HttpUsers} \ {0}
      BY DEF HttpInv, Callers, NoOrphanResults
    <3>2. {caller'[v].id : v \in HttpUsers} \ {0} = ({caller[v].id : v \in HttpUsers} \ {0}) \union {c}
      BY <1>3
    <3>3. QED
      BY <1>1, <3>1, <3>2 DEF NoOrphanResults
  <2>7. callerIds' \subseteq CallerIds
    BY <1>1 DEF HttpInv, Callers
  <2>8. QED
    BY <2>1, <2>4, <2>5, <2>6, <2>7 DEF Callers
<1>5. \A o \in HttpEntries' : Owned(o)'
  <2> SUFFICES ASSUME NEW o \in HttpEntries PROVE Owned(o)'
    BY <1>2
  <2>1. PICK v \in HttpUsers : caller[v].id = o.id /\ caller[v].session = askedBy[o.fetch]
    BY DEF HttpInv, HttpBooks, Owned
  <2>2. o.id # 0
    BY HttpEntryTypes DEF HttpInv
  <2>3. v # u
    BY <1>3, <2>1, <2>2
  <2>4. QED
    BY <1>1, <1>3, <2>1, <2>3 DEF Owned
<1>6. Clearing'
  <2>1. \A v \in HttpUsers : caller[v].freeing => caller'[v] = caller[v]
    BY <1>3
  <2>2. \A r \in ToSet(m_requests) : RequestOK(r)'
    BY <1>1, <1>2, <2>1 DEF HttpInv, Clearing, RequestOK
  <2>3. \A v \in cleared : v \in HttpUsers
    BY DEF HttpInv, HttpTypes
  <2>4. \A v \in cleared : /\ caller'[v].freeing
                           /\ \A o \in Requested \union Queued \union m_all_ongoing : o.id # caller'[v].id
    BY <2>1, <2>3 DEF HttpInv, Clearing
  <2>5. QED
    BY <1>1, <1>2, <2>2, <2>4 DEF HttpInv, Clearing
<1>7. HttpTypes'
  BY <1>1, <1>3 DEF HttpInv, HttpTypes
<1>8. HttpOnePlace'
  BY <1>1, <1>2 DEF HttpInv, HttpOnePlace
<1>9. HttpNewStatus
  BY <1>1, <1>2 DEF HttpNewStatus
<1>10. QED
  BY <1>4, <1>5, <1>6, <1>7, <1>8, <1>9, HttpBooksKept DEF HttpInv

(* It asks for something.                                                  *)
LEMMA FetchAskKeeps ==
  ASSUME HttpInv, NEW u \in HttpUsers, NEW f \in Fetches, httpfetch_async(u, f)
  PROVE  HttpInv' /\ HttpNewStatus
<1>c. PICK c : c = caller[u].id
  OBVIOUS
<1>s. PICK s : s = caller[u].session
  OBVIOUS
<1>o. PICK o : o = Ongoing(f, c)
  OBVIOUS
<1>e. PICK e : e = [type |-> "fetch", id |-> c, fetch |-> f, event |-> NoEvent]
  OBVIOUS
<1>1. /\ UNCHANGED <<g_httpfetch_results, callerIds, caller, m_all_ongoing, m_queued_fetches,
                     cleared, curlStop, sessions, gotBy>>
      /\ m_requests' = Append(m_requests, e) /\ askedBy[f] = Nobody
      /\ askedBy' = [askedBy EXCEPT ![f] = s]
      /\ c # 0 /\ ~caller[u].freeing /\ curl' # "off"
  BY <1>c, <1>s, <1>e DEF httpfetch_async, Uses
<1>2. c \in CallerIds /\ s \in Nat \ {0}
  BY <1>c, <1>s, <1>1 DEF HttpInv, Callers
<1>3. o \in Entries /\ o.fetch = f /\ o.id = c
  BY <1>o, <1>2 DEF Entries, Ongoing
<1>4. e \in HttpRequests
  BY <1>e, <1>2 DEF HttpRequests, NoEvent
<1>5. e.type = "fetch" /\ e.id = c /\ e.fetch = f /\ e.event = {}
  BY <1>e DEF NoEvent
<1>6. {p \in Entries : IsFor(e, p)} = {o}
  BY <1>3, <1>5, <1>o DEF IsFor, Entries, Ongoing
<1>7. \A p \in HttpEntries : p.fetch # f
  <2> SUFFICES ASSUME NEW p \in HttpEntries, p.fetch = f PROVE FALSE
    OBVIOUS
  <2>1. PICK v \in HttpUsers : caller[v].id = p.id /\ caller[v].session = Nobody
    BY <1>1 DEF HttpInv, HttpBooks, Owned
  <2>2. p.id # 0
    BY HttpEntryTypes DEF HttpInv
  <2>3. QED
    BY <2>1, <2>2 DEF HttpInv, Callers, Nobody
<1>8. \A r \in ToSet(m_requests) : MayPrecede(r, e)
  <2> SUFFICES ASSUME NEW r \in ToSet(m_requests) PROVE MayPrecede(r, e)
    OBVIOUS
  <2>1. r \in HttpRequests /\ RequestOK(r)
    BY QueueSet DEF HttpInv, HttpTypes, Clearing
  <2>2. r.event # {} => r.id # c
    BY <1>c, <1>1, <2>1 DEF RequestOK, HttpInv, Callers
  <2>3. r.type = "fetch" => r.fetch # f
    <3> SUFFICES ASSUME r.type = "fetch", r.fetch = f PROVE FALSE
      OBVIOUS
    <3>1. r.id \in CallerIds
      BY <2>1 DEF RequestOK, HttpRequests
    <3>2. Ongoing(f, r.id) \in Requested
      BY <3>1 DEF Requested, Entries, Ongoing, IsFor
    <3>3. Ongoing(f, r.id).fetch = f
      BY DEF Ongoing
    <3>4. QED
      BY <1>7, <3>2, <3>3 DEF HttpEntries
  <2>4. QED
    BY <1>5, <2>2, <2>3 DEF MayPrecede, Stale
<1>9. /\ m_requests' \in Seq(HttpRequests) /\ RequestsInOrder(m_requests')
      /\ ToSet(m_requests') = ToSet(m_requests) \union {e}
      /\ Requested' = Requested \union {o}
  BY <1>1, <1>4, <1>6, <1>8, RequestPut DEF HttpInv, Clearing
<1>10. /\ Queued' = Queued /\ Results' = Results /\ HttpEntries' = HttpEntries \union {o}
  BY <1>1, <1>9, ResultsSame DEF Queued, HttpEntries
<1>11. HttpTypes'
  BY <1>1, <1>2, <1>9 DEF HttpInv, HttpTypes
<1>12. Callers'
  BY <1>1 DEF HttpInv, Callers, NoOrphanResults
<1>13. \A p \in HttpEntries' : Owned(p)'
  <2>1. Owned(o)'
    <3>1. askedBy'[o.fetch] = s
      BY <1>1, <1>3 DEF HttpInv, HttpTypes
    <3>2. caller'[u].id = o.id /\ caller'[u].session = s
      BY <1>c, <1>s, <1>1, <1>3
    <3>3. QED
      BY <3>1, <3>2 DEF Owned
  <2>2. ASSUME NEW p \in HttpEntries PROVE Owned(p)'
    <3>1. askedBy'[p.fetch] = askedBy[p.fetch]
      BY <1>1, <1>7 DEF HttpInv, HttpTypes
    <3>2. QED
      BY <1>1, <3>1 DEF HttpInv, HttpBooks, Owned
  <2>3. QED
    BY <1>10, <2>1, <2>2
<1>14. Clearing'
  <2>1. RequestOK(e)'
    BY <1>1, <1>5, HttpFetchAssumption DEF RequestOK, Stale
  <2>2. \A r \in ToSet(m_requests) : RequestOK(r)'
    BY <1>1, <1>10 DEF HttpInv, Clearing, RequestOK
  <2>3. \A v \in cleared : caller[v].freeing /\ o.id # caller[v].id
    BY <1>c, <1>1, <1>3 DEF HttpInv, HttpTypes, Clearing, Callers
  <2>4. QED
    BY <1>1, <1>9, <1>10, <2>1, <2>2, <2>3 DEF HttpInv, Clearing
<1>15. HttpOnePlace'
  <2>1. o \notin Queued /\ o \notin m_all_ongoing /\ o \notin Results
    BY <1>3, <1>7 DEF HttpEntries
  <2>2. QED
    BY <1>1, <1>9, <1>10, <2>1 DEF HttpInv, HttpOnePlace
<1>16. HttpNewStatus
  BY <1>1, <1>2, <1>3, <1>10 DEF HttpNewStatus
<1>17. QED
  BY <1>11, <1>12, <1>13, <1>14, <1>15, <1>16, HttpBooksKept DEF HttpInv

(* It gets a result: its own.                                              *)
LEMMA FetchGetKeeps ==
  ASSUME HttpInv, NEW u \in HttpUsers, httpfetch_async_get(u)
  PROVE  HttpInv' /\ HttpNewStatus
<1> DEFINE c == caller[u].id
           f == Head(g_httpfetch_results[c])
           o == Ongoing(f, c)
<1>1. /\ UNCHANGED <<callerIds, caller, m_requests, curl, m_all_ongoing, m_queued_fetches,
                     cleared, curlStop, sessions, askedBy>>
      /\ g_httpfetch_results[c] # <<>> /\ c # 0
      /\ g_httpfetch_results' = [g_httpfetch_results EXCEPT ![c] = Tail(@)]
      /\ gotBy' = [gotBy EXCEPT ![f] = Append(@, caller[u].session)]
  BY DEF httpfetch_async_get, Uses, curlVars
<1>2. c \in CallerIds
  BY <1>1 DEF HttpInv, Callers
<1>3. /\ g_httpfetch_results' \in [CallerIds -> Seq(Fetches)]
      /\ o \in Results /\ Results' = Results \ {o}
      /\ \A d \in CallerIds : Once(g_httpfetch_results'[d])
  BY <1>1, <1>2, ResultsTake DEF HttpInv, HttpOnePlace
<1> HIDE DEF f, c
<1>4. o.fetch = f /\ o.id = c
  BY DEF Ongoing
<1> HIDE DEF o
<1>5. f \in Fetches /\ o \in HttpEntries /\ o \in Entries
  BY <1>3, <1>4, HttpEntryTypes DEF HttpInv, HttpEntries
<1>6. gotBy[f] = <<>> /\ caller[u].session = askedBy[f]
  <2>1. PICK v \in HttpUsers : caller[v].id = c /\ caller[v].session = askedBy[f]
    BY <1>4, <1>5 DEF HttpInv, HttpBooks, Owned
  <2>2. v = u
    BY <1>1, <2>1 DEF HttpInv, Callers, c
  <2>3. QED
    BY <1>4, <1>5, <2>1, <2>2 DEF HttpInv, HttpBooks
<1>7. gotBy' = [gotBy EXCEPT ![o.fetch] = <<askedBy[o.fetch]>>]
  <2>1. Append(gotBy[f], caller[u].session) = <<askedBy[f]>>
    BY <1>6
  <2>2. QED
    BY <1>1, <1>4, <2>1
<1>8. Requested' = Requested /\ Queued' = Queued
  BY <1>1, RequestsSame DEF Queued
<1>9. HttpEntries' = HttpEntries \ {o}
  BY <1>1, <1>3, <1>8 DEF HttpInv, HttpOnePlace, HttpEntries
<1>10. HttpTypes'
  BY <1>1, <1>3, <1>7 DEF HttpInv, HttpTypes
<1>11. Callers'
  BY <1>1 DEF HttpInv, Callers, NoOrphanResults
<1>12. \A p \in HttpEntries' : Owned(p)'
  BY <1>1, <1>9, OwnedSame DEF HttpInv, HttpBooks
<1>13. Clearing'
  BY <1>1, <1>8 DEF HttpInv, Clearing, RequestOK
<1>14. HttpOnePlace'
  BY <1>1, <1>3, <1>8 DEF HttpInv, HttpOnePlace
<1>15. HttpNewStatus
  BY <1>1, <1>5, <1>7, <1>9 DEF HttpNewStatus
<1>16. QED
  BY <1>10, <1>11, <1>12, <1>13, <1>14, <1>15, HttpBooksKept DEF HttpInv

(* It frees its id: the request that clears it is behind all its others.   *)
LEMMA FreeKeeps ==
  ASSUME HttpInv, NEW u \in HttpUsers, httpfetch_caller_free(u)
  PROVE  HttpInv' /\ HttpNewStatus
<1>c. PICK c : c = caller[u].id
  OBVIOUS
<1>v. PICK ev : ev = IF curl = "off" THEN NoEvent ELSE {u}
  OBVIOUS
<1>e. PICK e : e = [type |-> "clear", id |-> c, fetch |-> NoFetch, event |-> ev]
  OBVIOUS
<1>1. /\ UNCHANGED <<g_httpfetch_results, callerIds, curl, m_all_ongoing, m_queued_fetches,
                     curlStop, sessions, askedBy, gotBy>>
      /\ m_requests' = Append(m_requests, e)
      /\ caller' = [caller EXCEPT ![u].freeing = TRUE]
      /\ cleared' = IF curl = "off" THEN cleared \union {u} ELSE cleared
      /\ c # 0 /\ ~caller[u].freeing
  BY <1>c, <1>v, <1>e DEF httpfetch_caller_free, Uses, curlVars, httpHistory
<1>2. c \in CallerIds /\ ev \in SUBSET HttpUsers
  BY <1>c, <1>v, <1>1 DEF HttpInv, Callers, NoEvent
<1>3. /\ e \in HttpRequests /\ e.type = "clear" /\ e.id = c /\ e.fetch = NoFetch /\ e.event = ev
      /\ \A p : ~IsFor(e, p)
  BY <1>e, <1>2 DEF HttpRequests, IsFor
<1>4. /\ DOMAIN caller' = HttpUsers
      /\ \A v \in HttpUsers \ {u} : caller'[v] = caller[v]
      /\ caller'[u].freeing = TRUE /\ caller'[u].id = c /\ caller'[u].session = caller[u].session
      /\ caller'[u] \in [id : CallerIds \union {0}, session : Nat, freeing : BOOLEAN]
  <2>1. caller \in [HttpUsers -> [id : CallerIds \union {0}, session : Nat, freeing : BOOLEAN]]
    BY DEF HttpInv, Callers
  <2>2. caller' = [caller EXCEPT ![u] = [caller[u] EXCEPT !.freeing = TRUE]]
    BY <1>1
  <2>3. QED
    BY <1>c, <2>1, <2>2
<1>5. \A v \in HttpUsers : caller'[v].id = caller[v].id /\ caller'[v].session = caller[v].session
  BY <1>c, <1>4
<1>6. u \notin cleared
  BY <1>1 DEF HttpInv, Clearing
<1>7. \A r \in ToSet(m_requests) : MayPrecede(r, e)
  <2> SUFFICES ASSUME NEW r \in ToSet(m_requests) PROVE MayPrecede(r, e)
    OBVIOUS
  <2>1. r \in HttpRequests /\ RequestOK(r)
    BY QueueSet DEF HttpInv, HttpTypes, Clearing
  <2>2. CASE curl = "off"
    <3>1. r.event = {}
      BY <2>2 DEF HttpInv, Clearing
    <3>2. r.type # "fetch"
      <4> SUFFICES ASSUME r.type = "fetch" PROVE FALSE
        OBVIOUS
      <4>1. r.id \in CallerIds /\ r.fetch \in Fetches
        BY <2>1 DEF RequestOK, HttpRequests
      <4>2. Ongoing(r.fetch, r.id) \in Requested
        BY <4>1 DEF Requested, Entries, Ongoing, IsFor
      <4>3. QED
        BY <2>2, <4>2 DEF HttpInv, Clearing
    <3>3. QED
      BY <3>1, <3>2 DEF MayPrecede
  <2>3. CASE curl # "off"
    <3>1. ev = {u}
      BY <1>v, <2>3
    <3>2. r.event # {u}
      BY <1>1, <2>1 DEF RequestOK
    <3>3. QED
      BY <1>3, <3>1, <3>2 DEF MayPrecede, Stale
  <2>4. QED
    BY <2>2, <2>3
<1>8. /\ m_requests' \in Seq(HttpRequests) /\ RequestsInOrder(m_requests')
      /\ ToSet(m_requests') = ToSet(m_requests) \union {e}
      /\ Requested' = Requested
  <2>1. /\ m_requests' \in Seq(HttpRequests) /\ RequestsInOrder(m_requests')
        /\ ToSet(m_requests') = ToSet(m_requests) \union {e}
        /\ Requested' = Requested \union {o \in Entries : IsFor(e, o)}
    BY <1>1, <1>3, <1>7, RequestPut DEF HttpInv, Clearing
  <2>2. QED
    BY <1>3, <2>1
<1>9. /\ Queued' = Queued /\ Results' = Results /\ HttpEntries' = HttpEntries
  BY <1>1, <1>8, ResultsSame DEF Queued, HttpEntries
<1>10. HttpTypes'
  BY <1>1, <1>8 DEF HttpInv, HttpTypes
<1>11. Callers'
  <2>1. caller' \in [HttpUsers -> [id : CallerIds \union {0}, session : Nat, freeing : BOOLEAN]]
    BY <1>1, <1>4 DEF HttpInv, Callers
  <2>2. NoOrphanResults'
    BY <1>1, <1>5 DEF HttpInv, Callers, NoOrphanResults
  <2>3. \A v \in HttpUsers : IF caller'[v].id = 0 THEN caller'[v] = NoCaller
                             ELSE caller'[v].session \in 1 .. sessions'
    BY <1>c, <1>1, <1>4 DEF HttpInv, Callers
  <2>4. QED
    BY <1>1, <1>5, <2>1, <2>2, <2>3 DEF HttpInv, Callers
<1>12. \A p \in HttpEntries' : Owned(p)'
  BY <1>1, <1>5, <1>9 DEF HttpInv, HttpBooks, Owned
<1>13. Clearing'
  <2>1. RequestOK(e)'
    <3>1. CASE curl = "off"
      BY <1>v, <1>1, <1>3, <1>9, <3>1 DEF RequestOK, NoEvent, HttpInv, Clearing
    <3>2. CASE curl # "off"
      <4>1. ev = {u} /\ u \notin cleared' /\ caller'[u].freeing /\ caller'[u].id = e.id
        BY <1>v, <1>1, <1>3, <1>4, <1>6, <3>2
      <4>2. QED
        BY <1>3, <4>1 DEF RequestOK, Stale
    <3>3. QED
      BY <3>1, <3>2
  <2>2. \A r \in ToSet(m_requests) : RequestOK(r)'
    <3> SUFFICES ASSUME NEW r \in ToSet(m_requests) PROVE RequestOK(r)'
      OBVIOUS
    <3>1. RequestOK(r)
      BY DEF HttpInv, Clearing
    <3>2. \A v \in HttpUsers : caller[v].freeing /\ v \notin cleared => caller'[v] = caller[v] /\ v \notin cleared'
      BY <1>1, <1>4
    <3>3. QED
      BY <1>1, <1>9, <3>1, <3>2 DEF RequestOK
  <2>3. \A v \in cleared' : /\ caller'[v].freeing
                            /\ \A o \in Requested \union Queued \union m_all_ongoing : o.id # caller'[v].id
    <3>1. \A v \in cleared : caller'[v] = caller[v]
      BY <1>4, <1>6 DEF HttpInv, HttpTypes
    <3>2. \A v \in cleared : /\ caller'[v].freeing
                             /\ \A o \in Requested \union Queued \union m_all_ongoing : o.id # caller'[v].id
      BY <3>1 DEF HttpInv, Clearing
    <3>3. CASE curl = "off"
      BY <1>1, <1>4, <3>2, <3>3 DEF HttpInv, Clearing
    <3>4. CASE curl # "off"
      BY <1>1, <3>2, <3>4
    <3>5. QED
      BY <3>3, <3>4
  <2>4. curl' = "off" => /\ Requested' \union Queued' \union m_all_ongoing' = {}
                         /\ \A r \in ToSet(m_requests') : r.event = {}
    BY <1>v, <1>1, <1>3, <1>8, <1>9 DEF HttpInv, Clearing, NoEvent
  <2>5. QED
    BY <1>1, <1>8, <1>9, <2>1, <2>2, <2>3, <2>4 DEF Clearing
<1>14. HttpOnePlace'
  BY <1>1, <1>8, <1>9 DEF HttpInv, HttpOnePlace
<1>15. HttpNewStatus
  BY <1>1, <1>9 DEF HttpNewStatus
<1>16. QED
  BY <1>10, <1>11, <1>12, <1>13, <1>14, <1>15, HttpBooksKept DEF HttpInv

(* What was asked by one that has, or had, the id is wanted by nobody else.*)
LEMMA NobodyElse ==
  ASSUME HttpInv, NEW u \in HttpUsers, NEW o \in HttpEntries, o.id = caller[u].id
  PROVE  /\ caller[u].session = askedBy[o.fetch] /\ o.fetch \in Fetches
         /\ \A v \in HttpUsers : caller[v].session = askedBy[o.fetch] => v = u
<1>1. o.id # 0 /\ o.fetch \in Fetches
  BY HttpEntryTypes DEF HttpInv
<1>2. PICK v \in HttpUsers : caller[v].id = o.id /\ caller[v].session = askedBy[o.fetch]
  BY DEF HttpInv, HttpBooks, Owned
<1>3. v = u
  BY <1>1, <1>2 DEF HttpInv, Callers
<1>4. caller[u].session # 0
  BY <1>1 DEF HttpInv, Callers
<1>5. QED
  BY <1>1, <1>2, <1>3, <1>4 DEF HttpInv, Callers

(* Its results are erased, and the id is free.                             *)
LEMMA EraseKeeps ==
  ASSUME HttpInv, NEW u \in HttpUsers, EraseResults(u)
  PROVE  HttpInv' /\ HttpNewStatus
<1>c. PICK c : c = caller[u].id
  OBVIOUS
<1>1. /\ UNCHANGED <<m_requests, curl, m_all_ongoing, m_queued_fetches, curlStop, sessions,
                     askedBy, gotBy>>
      /\ caller[u].freeing /\ u \in cleared
      /\ g_httpfetch_results' = [g_httpfetch_results EXCEPT ![c] = <<>>]
      /\ callerIds' = callerIds \ {c} /\ caller' = [caller EXCEPT ![u] = NoCaller]
      /\ cleared' = cleared \ {u}
  BY <1>c DEF EraseResults, curlVars, httpHistory
<1>2. c \in CallerIds /\ c # 0
  BY <1>c, <1>1 DEF HttpInv, Callers, NoCaller
<1>3. /\ g_httpfetch_results' \in [CallerIds -> Seq(Fetches)]
      /\ Results' = {o \in Results : o.id # c}
      /\ \A d \in CallerIds : Once(g_httpfetch_results'[d])
  BY <1>1, <1>2, ResultsErase DEF HttpInv, HttpOnePlace
<1>4. /\ Requested' = Requested /\ Queued' = Queued
      /\ HttpEntries' = {o \in HttpEntries : o.id # c}
  <2>1. Requested' = Requested /\ Queued' = Queued
    BY <1>1, RequestsSame DEF Queued
  <2>2. \A o \in Requested \union Queued \union m_all_ongoing : o.id # c
    BY <1>c, <1>1 DEF HttpInv, Clearing
  <2>3. QED
    BY <1>1, <1>3, <2>1, <2>2 DEF HttpEntries
<1>5. /\ DOMAIN caller' = HttpUsers /\ caller'[u] = NoCaller
      /\ \A v \in HttpUsers \ {u} : caller'[v] = caller[v]
      /\ \A v \in HttpUsers \ {u} : caller[v].id # c
  <2>1. \A v \in HttpUsers \ {u} : caller[v].id # c
    BY <1>c, <1>2 DEF HttpInv, Callers
  <2>2. QED
    BY <1>1, <2>1 DEF HttpInv, Callers
<1>6. NoCaller.id = 0 /\ NoCaller.session = 0 /\ NoCaller.freeing = FALSE
  BY DEF NoCaller
<1>7. HttpTypes'
  BY <1>1, <1>3 DEF HttpInv, HttpTypes
<1>8. Callers'
  <2>1. caller' \in [HttpUsers -> [id : CallerIds \union {0}, session : Nat, freeing : BOOLEAN]]
    <3>1. NoCaller \in [id : CallerIds \union {0}, session : Nat, freeing : BOOLEAN]
      BY DEF NoCaller
    <3>2. QED
      BY <1>1, <3>1 DEF HttpInv, Callers
  <2>2. NoOrphanResults'
    <3>1. callerIds = {caller[v].id : v \in HttpUsers} \ {0}
      BY DEF HttpInv, Callers, NoOrphanResults
    <3>2. {caller'[v].id : v \in HttpUsers} \ {0} = ({caller[v].id : v \in HttpUsers} \ {0}) \ {c}
      BY <1>c, <1>5, <1>6
    <3>3. QED
      BY <1>1, <3>1, <3>2 DEF NoOrphanResults
  <2>3. callerIds' \subseteq CallerIds
    BY <1>1 DEF HttpInv, Callers
  <2>4. QED
    BY <1>1, <1>5, <1>6, <2>1, <2>2, <2>3 DEF HttpInv, Callers
<1>9. \A p \in HttpEntries' : Owned(p)'
  <2> SUFFICES ASSUME NEW p \in HttpEntries, p.id # c PROVE Owned(p)'
    BY <1>4
  <2>1. PICK v \in HttpUsers : caller[v].id = p.id /\ caller[v].session = askedBy[p.fetch]
    BY DEF HttpInv, HttpBooks, Owned
  <2>2. caller'[v] = caller[v]
    BY <1>c, <1>5, <2>1
  <2>3. QED
    BY <1>1, <2>1, <2>2 DEF Owned
<1>10. Clearing'
  <2>1. \A r \in ToSet(m_requests) : RequestOK(r)'
    <3> SUFFICES ASSUME NEW r \in ToSet(m_requests) PROVE RequestOK(r)'
      OBVIOUS
    <3>1. RequestOK(r)
      BY DEF HttpInv, Clearing
    <3>2. \A v \in HttpUsers : v \notin cleared => caller'[v] = caller[v] /\ v \notin cleared'
      BY <1>1, <1>5
    <3>3. QED
      BY <1>1, <1>4, <3>1, <3>2 DEF RequestOK
  <2>2. \A v \in cleared' : caller'[v] = caller[v] /\ v \in cleared
    BY <1>1, <1>5 DEF HttpInv, HttpTypes
  <2>3. QED
    BY <1>1, <1>4, <2>1, <2>2 DEF HttpInv, Clearing
<1>11. HttpOnePlace'
  BY <1>1, <1>3, <1>4 DEF HttpInv, HttpOnePlace
<1>12. HttpNewStatus
  <2>1. ASSUME NEW o \in HttpEntries, o.id = c PROVE o.fetch \in HttpExcused'
    <3>1. /\ o.fetch \in Fetches
          /\ \A v \in HttpUsers : caller[v].session = askedBy[o.fetch] => v = u
      BY <1>c, <2>1, NobodyElse
    <3>2. ASSUME NEW v \in HttpUsers, Uses(v)', caller'[v].session = askedBy[o.fetch] PROVE FALSE
      BY <1>5, <1>6, <3>1, <3>2 DEF Uses
    <3>3. o.fetch \in Unwanted'
      BY <1>1, <3>1, <3>2 DEF Unwanted
    <3>4. QED
      BY <3>1, <3>3 DEF HttpExcused
  <2>2. QED
    BY <1>1, <1>4, <2>1 DEF HttpNewStatus
<1>13. QED
  BY <1>7, <1>8, <1>9, <1>10, <1>11, <1>12, HttpBooksKept DEF HttpInv

(* The end of the program.                                                 *)
LEMMA CleanupKeeps ==
  ASSUME HttpInv, httpfetch_cleanup
  PROVE  HttpInv' /\ HttpNewStatus
<1>e. PICK e : e = [type |-> "wakeup", id |-> 0, fetch |-> NoFetch, event |-> NoEvent]
  OBVIOUS
<1>1. /\ UNCHANGED <<g_httpfetch_results, callerIds, caller, curl, m_all_ongoing,
                     m_queued_fetches, cleared, sessions, askedBy, gotBy>>
      /\ m_requests' = Append(m_requests, e)
  BY <1>e DEF httpfetch_cleanup, curlVars, httpHistory
<1>2. /\ e \in HttpRequests /\ e.type = "wakeup" /\ e.fetch = NoFetch /\ e.event = {}
      /\ \A p : ~IsFor(e, p)
  BY <1>e DEF HttpRequests, IsFor, NoEvent
<1>3. \A r \in ToSet(m_requests) : MayPrecede(r, e)
  BY <1>2 DEF HttpInv, Clearing, RequestOK, MayPrecede, Stale
<1>4. /\ m_requests' \in Seq(HttpRequests) /\ RequestsInOrder(m_requests')
      /\ ToSet(m_requests') = ToSet(m_requests) \union {e}
      /\ Requested' = Requested
  <2>1. /\ m_requests' \in Seq(HttpRequests) /\ RequestsInOrder(m_requests')
        /\ ToSet(m_requests') = ToSet(m_requests) \union {e}
        /\ Requested' = Requested \union {o \in Entries : IsFor(e, o)}
    BY <1>1, <1>2, <1>3, RequestPut DEF HttpInv, Clearing
  <2>2. QED
    BY <1>2, <2>1
<1>5. /\ Queued' = Queued /\ Results' = Results /\ HttpEntries' = HttpEntries
  BY <1>1, <1>4, ResultsSame DEF Queued, HttpEntries
<1>6. HttpTypes' /\ Callers'
  BY <1>1, <1>4 DEF HttpInv, HttpTypes, Callers, NoOrphanResults
<1>7. \A p \in HttpEntries' : Owned(p)'
  BY <1>1, <1>5, OwnedSame DEF HttpInv, HttpBooks
<1>8. Clearing'
  <2>1. RequestOK(e)'
    BY <1>2 DEF RequestOK, Stale
  <2>2. \A r \in ToSet(m_requests) : RequestOK(r)'
    BY <1>1, <1>5 DEF HttpInv, Clearing, RequestOK
  <2>3. QED
    BY <1>1, <1>2, <1>4, <1>5, <2>1, <2>2 DEF HttpInv, Clearing
<1>9. HttpOnePlace'
  BY <1>1, <1>4, <1>5 DEF HttpInv, HttpOnePlace
<1>10. HttpNewStatus
  BY <1>1, <1>5 DEF HttpNewStatus
<1>11. QED
  BY <1>6, <1>7, <1>8, <1>9, <1>10, HttpBooksKept DEF HttpInv

(* The thread takes a request.                                             *)
TakesRequest ==
  /\ m_requests # <<>> /\ processRequest(Head(m_requests)) /\ m_requests' = Tail(m_requests)
  /\ UNCHANGED <<g_httpfetch_results, callerIds, caller, curlStop, sessions, askedBy, gotBy>>
  /\ curl # "off" /\ curl' # "off"

LEMMA FetchTaken ==
  ASSUME HttpInv, TakesRequest, Head(m_requests).type = "fetch"
  PROVE  HttpInv' /\ HttpNewStatus
<1>h. PICK h : h = Head(m_requests)
  OBVIOUS
<1>o. PICK o : o = Ongoing(h.fetch, h.id)
  OBVIOUS
<1>1. /\ UNCHANGED <<g_httpfetch_results, callerIds, caller, curlStop, sessions, askedBy, gotBy,
                     m_all_ongoing>>
      /\ m_queued_fetches' = Append(m_queued_fetches, o)
      /\ cleared' = cleared \union h.event
      /\ m_requests' = Tail(m_requests) /\ m_requests # <<>> /\ curl' # "off"
  BY <1>h, <1>o DEF TakesRequest, processRequest
<1>2. /\ m_requests' \in Seq(HttpRequests) /\ RequestsInOrder(m_requests')
      /\ h \in ToSet(m_requests) /\ h \in HttpRequests
      /\ ToSet(m_requests') \subseteq ToSet(m_requests)
      /\ \A r \in ToSet(m_requests') : MayPrecede(h, r)
      /\ Requested = Requested' \union {p \in Entries : IsFor(h, p)}
      /\ \A p \in Requested' : ~IsFor(h, p)
  BY <1>h, <1>1, RequestTaken DEF HttpInv
<1>3. h.type = "fetch" /\ h.fetch \in Fetches /\ h.id \in CallerIds /\ h.event = {}
  BY <1>h, <1>2 DEF HttpRequests, HttpInv, Clearing, RequestOK
<1>4. o \in Entries /\ \A p \in Entries : IsFor(h, p) <=> p = o
  BY <1>3, <1>o DEF Entries, Ongoing, IsFor
<1>5. Requested = Requested' \union {o} /\ o \notin Requested' /\ cleared' = cleared
  BY <1>1, <1>2, <1>3, <1>4
<1>6. o \notin Queued
  BY <1>5 DEF HttpInv, HttpOnePlace
<1>7. /\ m_queued_fetches' \in Seq(Entries) /\ Once(m_queued_fetches')
      /\ Queued' = Queued \union {o}
  BY <1>1, <1>4, <1>6, PutLast DEF HttpInv, HttpTypes, HttpOnePlace, Queued
<1>8. Results' = Results /\ HttpEntries' = HttpEntries
  BY <1>1, <1>5, <1>7, ResultsSame DEF HttpEntries
<1>9. HttpTypes' /\ Callers'
  BY <1>1, <1>2, <1>5, <1>7 DEF HttpInv, HttpTypes, Callers, NoOrphanResults
<1>10. \A p \in HttpEntries' : Owned(p)'
  BY <1>1, <1>8, OwnedSame DEF HttpInv, HttpBooks
<1>11. Clearing'
  <2>1. \A r \in ToSet(m_requests') : RequestOK(r)'
    <3> SUFFICES ASSUME NEW r \in ToSet(m_requests') PROVE RequestOK(r)'
      OBVIOUS
    <3>1. RequestOK(r)
      BY <1>2 DEF HttpInv, Clearing
    <3>2. ~Stale(r)
      BY <1>2, <1>3 DEF MayPrecede
    <3>3. QED
      BY <1>1, <1>5, <3>1, <3>2 DEF RequestOK, Stale
  <2>2. Requested' \union Queued' \union m_all_ongoing' = Requested \union Queued \union m_all_ongoing
    BY <1>1, <1>5, <1>7
  <2>3. QED
    BY <1>1, <1>2, <1>5, <2>1, <2>2 DEF HttpInv, Clearing
<1>12. HttpOnePlace'
  BY <1>1, <1>5, <1>7, <1>8 DEF HttpInv, HttpOnePlace
<1>13. HttpNewStatus
  BY <1>1, <1>8 DEF HttpNewStatus
<1>14. QED
  BY <1>9, <1>10, <1>11, <1>12, <1>13, HttpBooksKept DEF HttpInv

LEMMA ClearTaken ==
  ASSUME HttpInv, TakesRequest, Head(m_requests).type # "fetch"
  PROVE  HttpInv' /\ HttpNewStatus
<1>h. PICK h : h = Head(m_requests)
  OBVIOUS
<1>1. /\ UNCHANGED <<g_httpfetch_results, callerIds, caller, curlStop, sessions, askedBy, gotBy>>
      /\ m_queued_fetches' = IF h.type = "clear"
                             THEN Without(m_queued_fetches, {o \in ToSet(m_queued_fetches) : o.id = h.id})
                             ELSE m_queued_fetches
      /\ m_all_ongoing' = IF h.type = "clear" THEN {o \in m_all_ongoing : o.id # h.id} ELSE m_all_ongoing
      /\ cleared' = cleared \union h.event
      /\ m_requests' = Tail(m_requests) /\ m_requests # <<>> /\ curl' # "off"
      /\ h.type # "fetch"
  BY <1>h DEF TakesRequest, processRequest
<1>2. /\ m_requests' \in Seq(HttpRequests) /\ RequestsInOrder(m_requests')
      /\ h \in ToSet(m_requests) /\ h \in HttpRequests
      /\ ToSet(m_requests') \subseteq ToSet(m_requests)
      /\ \A r \in ToSet(m_requests') : MayPrecede(h, r)
      /\ Requested = Requested' \union {p \in Entries : IsFor(h, p)}
  BY <1>h, <1>1, RequestTaken DEF HttpInv
<1>3. Requested' = Requested /\ RequestOK(h)
  BY <1>1, <1>2 DEF IsFor, HttpInv, Clearing
<1>4. /\ m_queued_fetches' \in Seq(Entries) /\ Once(m_queued_fetches')
      /\ Queued' = IF h.type = "clear" THEN {o \in Queued : o.id # h.id} ELSE Queued
  <2>1. m_queued_fetches \in Seq(Entries) /\ Once(m_queued_fetches)
    BY DEF HttpInv, HttpTypes, HttpOnePlace
  <2>2. CASE h.type = "clear"
    <3>1. m_queued_fetches' = Without(m_queued_fetches, {o \in ToSet(m_queued_fetches) : o.id = h.id})
      BY <1>1, <2>2
    <3>2. /\ m_queued_fetches' \in Seq(Entries) /\ Once(m_queued_fetches')
          /\ ToSet(m_queued_fetches')
               = ToSet(m_queued_fetches) \ {o \in ToSet(m_queued_fetches) : o.id = h.id}
      BY <2>1, <3>1, WithoutIs
    <3>3. QED
      BY <2>2, <3>2 DEF Queued
  <2>3. CASE h.type # "clear"
    BY <1>1, <2>1, <2>3 DEF Queued
  <2>4. QED
    BY <2>2, <2>3
<1>5. Results' = Results
  BY <1>1, ResultsSame
<1>6. /\ Queued' \subseteq Queued /\ m_all_ongoing' \subseteq m_all_ongoing
      /\ HttpEntries' \subseteq HttpEntries
  BY <1>1, <1>3, <1>4, <1>5 DEF HttpEntries
<1>7. \A o \in HttpEntries \ HttpEntries' : /\ h.type = "clear" /\ o.id = h.id
                                            /\ o \in Queued \union m_all_ongoing
  BY <1>1, <1>3, <1>4, <1>5 DEF HttpEntries
<1>8. h.event \subseteq HttpUsers
  BY <1>2 DEF HttpRequests
<1>9. HttpTypes' /\ Callers'
  BY <1>1, <1>2, <1>4, <1>6, <1>8 DEF HttpInv, HttpTypes, Callers, NoOrphanResults
<1>10. \A p \in HttpEntries' : Owned(p)'
  BY <1>1, <1>6, OwnedSame DEF HttpInv, HttpBooks
<1>11. HttpOnePlace'
  BY <1>1, <1>3, <1>4, <1>5, <1>6 DEF HttpInv, HttpOnePlace
<1>12. Clearing'
  <2>1. \A r \in ToSet(m_requests') : RequestOK(r)'
    <3> SUFFICES ASSUME NEW r \in ToSet(m_requests') PROVE RequestOK(r)'
      OBVIOUS
    <3>1. RequestOK(r) /\ r \in HttpRequests /\ MayPrecede(h, r)
      BY <1>2, QueueSet DEF HttpInv, Clearing, HttpTypes
    <3>2. ASSUME NEW u \in HttpUsers, r.event = {u}, u \notin cleared,
                 caller[u].freeing, caller[u].id = r.id, r.type = "clear"
          PROVE  u \notin cleared'
      <4> SUFFICES ASSUME u \in h.event PROVE FALSE
        BY <1>1, <3>2
      <4>1. /\ h.type = "clear" /\ h.event = {u} /\ h.id = r.id
            /\ h.fetch = NoFetch /\ r.fetch = NoFetch
        BY <1>1, <1>3, <3>1, <3>2 DEF RequestOK
      <4>2. h = r
        <5>1. h.type = r.type /\ h.id = r.id /\ h.fetch = r.fetch /\ h.event = r.event
          BY <3>2, <4>1
        <5>2. QED
          BY <1>2, <3>1, <5>1 DEF HttpRequests
      <4>3. QED
        BY <3>1, <4>1, <4>2 DEF MayPrecede
    <3>3. r.event # {} => /\ r.type = "clear"
                          /\ \E u \in HttpUsers : /\ r.event = {u} /\ u \notin cleared'
                                                  /\ caller[u].freeing /\ caller[u].id = r.id
      BY <3>1, <3>2 DEF RequestOK
    <3>4. Stale(r) => Queued' = {} /\ m_all_ongoing' = {}
      BY <1>6, <3>1 DEF RequestOK
    <3>5. QED
      BY <1>1, <3>1, <3>3, <3>4 DEF RequestOK, Stale
  <2>2. \A v \in cleared' : /\ caller[v].freeing
                            /\ \A o \in Requested' \union Queued' \union m_all_ongoing' : o.id # caller[v].id
    <3>1. ASSUME NEW v \in cleared
          PROVE  /\ caller[v].freeing
                 /\ \A o \in Requested' \union Queued' \union m_all_ongoing' : o.id # caller[v].id
      BY <1>3, <1>6 DEF HttpInv, Clearing
    <3>2. ASSUME NEW v \in h.event
          PROVE  /\ caller[v].freeing
                 /\ \A o \in Requested' \union Queued' \union m_all_ongoing' : o.id # caller[v].id
      <4>1. h.type = "clear" /\ caller[v].freeing /\ caller[v].id = h.id
        BY <1>3, <3>2 DEF RequestOK
      <4>2. \A o \in Queued' \union m_all_ongoing' : o.id # h.id
        BY <1>1, <1>4, <4>1
      <4>3. ASSUME NEW o \in Requested' PROVE o.id # h.id
        <5>1. PICK r \in ToSet(m_requests') : IsFor(r, o)
          BY DEF Requested
        <5>2. MayPrecede(h, r) /\ r.type = "fetch" /\ r.id = o.id
          BY <1>2, <5>1 DEF IsFor
        <5>3. QED
          BY <3>2, <5>2 DEF MayPrecede
      <4>4. QED
        BY <4>1, <4>2, <4>3
    <3>3. QED
      BY <1>1, <3>1, <3>2
  <2>3. QED
    BY <1>1, <1>2, <2>1, <2>2 DEF Clearing
<1>13. HttpNewStatus
  <2>1. ASSUME NEW o \in HttpEntries \ HttpEntries' PROVE o.fetch \in HttpExcused'
    <3>1. h.event # {}
      BY <1>3, <1>7, <2>1 DEF RequestOK, Stale
    <3>2. PICK u \in HttpUsers : caller[u].freeing /\ caller[u].id = h.id
      BY <1>3, <3>1 DEF RequestOK
    <3>3. o.fetch \in Fetches /\ \A v \in HttpUsers : caller[v].session = askedBy[o.fetch] => v = u
      BY <1>7, <2>1, <3>2, NobodyElse
    <3>4. o.fetch \in Unwanted'
      BY <1>1, <3>2, <3>3 DEF Unwanted, Uses
    <3>5. QED
      BY <3>3, <3>4 DEF HttpExcused
  <2>2. QED
    BY <1>1, <1>6, <2>1 DEF HttpNewStatus
<1>14. QED
  BY <1>9, <1>10, <1>11, <1>12, <1>13, HttpBooksKept DEF HttpInv

(* An entry becomes a result.                                              *)
LEMMA Delivered ==
  ASSUME HttpInv, NEW o \in Queued \union m_all_ongoing, Deliver(o)
  PROVE  /\ callerIds' = callerIds
         /\ g_httpfetch_results' \in [CallerIds -> Seq(Fetches)]
         /\ Results' = Results \union {o}
         /\ \A c \in CallerIds : Once(g_httpfetch_results'[c])
<1>1. o \in Entries /\ o \in HttpEntries /\ o.id # 0
  BY HttpEntryTypes DEF HttpInv, HttpEntries
<1>2. o \notin Results
  BY DEF HttpInv, HttpOnePlace
<1>3. o.id \in callerIds
  <2>1. PICK u \in HttpUsers : caller[u].id = o.id
    BY <1>1 DEF HttpInv, HttpBooks, Owned
  <2>2. callerIds = {caller[v].id : v \in HttpUsers} \ {0}
    BY DEF HttpInv, Callers, NoOrphanResults
  <2>3. QED
    BY <1>1, <2>1, <2>2
<1>4. /\ g_httpfetch_results' = [g_httpfetch_results EXCEPT ![o.id] = Append(@, o.fetch)]
      /\ callerIds' = callerIds \union {o.id}
  BY DEF Deliver
<1>5. HttpTypes /\ \A c \in CallerIds : Once(g_httpfetch_results[c])
  BY DEF HttpInv, HttpOnePlace
<1>6. callerIds' = callerIds
  BY <1>3, <1>4
<1>7. QED
  BY <1>1, <1>2, <1>4, <1>5, <1>6, ResultsPut

(* What is queued is begun, or fails at once; what was begun ends.         *)
LEMMA QueuedKeeps ==
  ASSUME HttpInv, processQueued
  PROVE  HttpInv' /\ HttpNewStatus
<1>1. /\ UNCHANGED <<caller, m_requests, cleared, curlStop, sessions, askedBy, gotBy>>
      /\ curl = "queued" /\ curl' # "off"
  BY DEF processQueued, httpHistory
<1>2. CASE UNCHANGED <<m_queued_fetches, m_all_ongoing, g_httpfetch_results, callerIds>>
  <2>1. /\ Requested' = Requested /\ Queued' = Queued /\ Results' = Results
        /\ HttpEntries' = HttpEntries
    BY <1>1, <1>2, RequestsSame, ResultsSame DEF Queued, HttpEntries
  <2>2. HttpTypes' /\ Callers'
    BY <1>1, <1>2 DEF HttpInv, HttpTypes, Callers, NoOrphanResults
  <2>3. \A p \in HttpEntries' : Owned(p)'
    BY <1>1, <2>1, OwnedSame DEF HttpInv, HttpBooks
  <2>4. Clearing'
    BY <1>1, <1>2, <2>1 DEF HttpInv, Clearing, RequestOK
  <2>5. HttpOnePlace'
    BY <1>2, <2>1 DEF HttpInv, HttpOnePlace
  <2>6. HttpNewStatus
    BY <1>1, <2>1 DEF HttpNewStatus
  <2>7. QED
    BY <2>2, <2>3, <2>4, <2>5, <2>6, HttpBooksKept DEF HttpInv
<1>3. CASE /\ m_queued_fetches # <<>> /\ m_queued_fetches' = Tail(m_queued_fetches)
           /\ \/ /\ m_all_ongoing' = m_all_ongoing \union {Head(m_queued_fetches)}
                 /\ UNCHANGED <<g_httpfetch_results, callerIds>>
              \/ Deliver(Head(m_queued_fetches)) /\ UNCHANGED m_all_ongoing
  <2>o. PICK o : o = Head(m_queued_fetches)
    OBVIOUS
  <2>1. /\ m_queued_fetches' \in Seq(Entries) /\ Once(m_queued_fetches')
        /\ Queued = Queued' \union {o} /\ o \notin Queued' /\ o \in Entries
    <3>1. m_queued_fetches \in Seq(Entries) /\ Once(m_queued_fetches)
      BY DEF HttpInv, HttpTypes, HttpOnePlace
    <3>2. QED
      BY <1>3, <2>o, <3>1, TakeFirst DEF Queued
  <2>2. Requested' = Requested
    BY <1>1, RequestsSame
  <2>3. /\ callerIds' = callerIds
        /\ g_httpfetch_results' \in [CallerIds -> Seq(Fetches)]
        /\ \A c \in CallerIds : Once(g_httpfetch_results'[c])
        /\ \/ m_all_ongoing' = m_all_ongoing \union {o} /\ Results' = Results
           \/ m_all_ongoing' = m_all_ongoing /\ Results' = Results \union {o}
    <3>1. CASE /\ m_all_ongoing' = m_all_ongoing \union {o}
               /\ UNCHANGED <<g_httpfetch_results, callerIds>>
      BY <3>1, ResultsSame DEF HttpInv, HttpTypes, HttpOnePlace
    <3>2. CASE Deliver(o) /\ UNCHANGED m_all_ongoing
      BY <2>1, <3>2, Delivered
    <3>3. QED
      BY <1>3, <2>o, <3>1, <3>2
  <2>4. HttpEntries' = HttpEntries
    BY <2>1, <2>2, <2>3 DEF HttpEntries
  <2>5. HttpTypes' /\ Callers'
    <3>1. m_all_ongoing' \subseteq Entries
      BY <2>1, <2>3 DEF HttpInv, HttpTypes
    <3>2. QED
      BY <1>1, <2>1, <2>3, <3>1 DEF HttpInv, HttpTypes, Callers, NoOrphanResults
  <2>6. \A p \in HttpEntries' : Owned(p)'
    BY <1>1, <2>4, OwnedSame DEF HttpInv, HttpBooks
  <2>7. Clearing'
    <3>1. \A r \in ToSet(m_requests) : RequestOK(r)'
      BY <1>1, <2>1 DEF HttpInv, Clearing, RequestOK
    <3>2. Requested' \union Queued' \union m_all_ongoing' \subseteq Requested \union Queued \union m_all_ongoing
      BY <2>1, <2>2, <2>3
    <3>3. QED
      BY <1>1, <3>1, <3>2 DEF HttpInv, Clearing
  <2>8. HttpOnePlace'
    BY <2>1, <2>2, <2>3 DEF HttpInv, HttpOnePlace
  <2>9. HttpNewStatus
    BY <1>1, <2>4 DEF HttpNewStatus
  <2>10. QED
    BY <2>5, <2>6, <2>7, <2>8, <2>9, HttpBooksKept DEF HttpInv
<1>4. QED
  BY <1>2, <1>3 DEF processQueued

LEMMA MessageKeeps ==
  ASSUME HttpInv, NEW o \in m_all_ongoing, processCurlMessage(o)
  PROVE  HttpInv' /\ HttpNewStatus
<1>1. /\ UNCHANGED <<caller, m_requests, curl, m_queued_fetches, cleared, curlStop, sessions,
                     askedBy, gotBy>>
      /\ m_all_ongoing' = m_all_ongoing \ {o} /\ Deliver(o)
  BY DEF processCurlMessage, httpHistory
<1>2. Requested' = Requested /\ Queued' = Queued
  BY <1>1, RequestsSame DEF Queued
<1>3. /\ callerIds' = callerIds
      /\ g_httpfetch_results' \in [CallerIds -> Seq(Fetches)]
      /\ \A c \in CallerIds : Once(g_httpfetch_results'[c])
      /\ Results' = Results \union {o}
  BY <1>1, Delivered
<1>4. HttpEntries' = HttpEntries
  BY <1>1, <1>2, <1>3 DEF HttpEntries
<1>5. HttpTypes' /\ Callers'
  <2>1. m_all_ongoing' \subseteq Entries
    BY <1>1 DEF HttpInv, HttpTypes
  <2>2. QED
    BY <1>1, <1>3, <2>1 DEF HttpInv, HttpTypes, Callers, NoOrphanResults
<1>6. \A p \in HttpEntries' : Owned(p)'
  BY <1>1, <1>4, OwnedSame DEF HttpInv, HttpBooks
<1>7. Clearing'
  <2>1. \A r \in ToSet(m_requests) : RequestOK(r)'
    BY <1>1, <1>2 DEF HttpInv, Clearing, RequestOK
  <2>2. QED
    BY <1>1, <1>2, <2>1 DEF HttpInv, Clearing
<1>8. HttpOnePlace'
  BY <1>1, <1>2, <1>3 DEF HttpInv, HttpOnePlace
<1>9. HttpNewStatus
  BY <1>1, <1>4 DEF HttpNewStatus
<1>10. QED
  BY <1>5, <1>6, <1>7, <1>8, <1>9, HttpBooksKept DEF HttpInv

(* The thread goes on, or ends and leaves what was begun.                  *)
LEMMA LoopKeeps ==
  ASSUME HttpInv,
         UNCHANGED <<g_httpfetch_results, callerIds, caller, m_requests, cleared, curlStop,
                     sessions, askedBy, gotBy>>,
         curl' = "off" => curl = "off",
         \/ UNCHANGED <<m_all_ongoing, m_queued_fetches>>
         \/ curlStop /\ m_all_ongoing' = {} /\ m_queued_fetches' = <<>>
  PROVE  HttpInv' /\ HttpNewStatus
<1>1. Requested' = Requested /\ Results' = Results
  BY RequestsSame, ResultsSame
<1>2. /\ m_all_ongoing' \subseteq m_all_ongoing /\ Queued' \subseteq Queued
      /\ m_queued_fetches' \in Seq(Entries) /\ Once(m_queued_fetches')
  <2>1. CASE UNCHANGED <<m_all_ongoing, m_queued_fetches>>
    BY <2>1 DEF Queued, HttpInv, HttpTypes, HttpOnePlace
  <2>2. CASE m_all_ongoing' = {} /\ m_queued_fetches' = <<>>
    <3>1. ToSet(m_queued_fetches') = {} /\ Once(m_queued_fetches')
      BY <2>2, EmptyQueue
    <3>2. QED
      BY <2>2, <3>1 DEF Queued
  <2>3. QED
    BY <2>1, <2>2
<1>3. HttpEntries' \subseteq HttpEntries
  BY <1>1, <1>2 DEF HttpEntries
<1>4. HttpTypes' /\ Callers'
  <2>1. m_all_ongoing' \subseteq Entries
    BY <1>2 DEF HttpInv, HttpTypes
  <2>2. QED
    BY <1>2, <2>1 DEF HttpInv, HttpTypes, Callers, NoOrphanResults
<1>5. \A p \in HttpEntries' : Owned(p)'
  BY <1>3, OwnedSame DEF HttpInv, HttpBooks
<1>6. Clearing'
  <2>1. \A r \in ToSet(m_requests) : RequestOK(r)'
    BY <1>2 DEF HttpInv, Clearing, RequestOK
  <2>2. QED
    BY <1>1, <1>2, <2>1 DEF HttpInv, Clearing
<1>7. HttpOnePlace'
  BY <1>1, <1>2 DEF HttpInv, HttpOnePlace
<1>8. HttpNewStatus
  <2>1. CASE UNCHANGED <<m_all_ongoing, m_queued_fetches>>
    BY <1>1, <2>1 DEF HttpNewStatus, HttpEntries, Queued
  <2>2. CASE curlStop
    <3>1. \A o \in HttpEntries : o.fetch \in HttpExcused'
      BY <2>2, HttpEntryTypes DEF HttpExcused, HttpInv
    <3>2. QED
      BY <1>3, <3>1 DEF HttpNewStatus
  <2>3. QED
    BY <2>1, <2>2
<1>9. QED
  BY <1>4, <1>5, <1>6, <1>7, <1>8, HttpBooksKept DEF HttpInv

LEMMA HttpKeeps ==
  ASSUME HttpInv, [HttpNext]_httpVars
  PROVE  HttpInv' /\ HttpNewStatus
<1>1. CASE \E u \in HttpUsers : HttpUserNext(u)
  <2>1. PICK u \in HttpUsers : HttpUserNext(u)
    BY <1>1
  <2>2. CASE \E c \in CallerIds : httpfetch_caller_alloc(u, c)
    BY <2>2, AllocKeeps
  <2>3. CASE \E f \in Fetches : httpfetch_async(u, f)
    BY <2>3, FetchAskKeeps
  <2>4. CASE httpfetch_async_get(u)
    BY <2>4, FetchGetKeeps
  <2>5. CASE httpfetch_caller_free(u)
    BY <2>5, FreeKeeps
  <2>6. CASE EraseResults(u)
    BY <2>6, EraseKeeps
  <2>7. QED
    BY <2>1, <2>2, <2>3, <2>4, <2>5, <2>6 DEF HttpUserNext
<1>2. CASE httpfetch_cleanup
  BY <1>2, CleanupKeeps
<1>3. CASE processQueued
  BY <1>3, QueuedKeeps
<1>4. CASE CurlDone
  BY <1>4, MessageKeeps DEF CurlDone
<1>5. CASE TakesRequest
  BY <1>5, FetchTaken, ClearTaken
<1>6. CASE /\ UNCHANGED <<g_httpfetch_results, callerIds, caller, m_requests, cleared, curlStop,
                          sessions, askedBy, gotBy>>
           /\ curl' = "off" => curl = "off"
           /\ \/ UNCHANGED <<m_all_ongoing, m_queued_fetches>>
              \/ curlStop /\ m_all_ongoing' = {} /\ m_queued_fetches' = <<>>
  BY <1>6, LoopKeeps
<1>7. CASE TakeRequests
  BY <1>5, <1>6, <1>7 DEF TakeRequests, TakesRequest, httpHistory
<1>8. CASE waitForRequest
  BY <1>5, <1>8 DEF waitForRequest, TakesRequest, httpHistory
<1>9. CASE GoesToWait
  BY <1>6, <1>9 DEF GoesToWait, httpHistory
<1>10. CASE GoesOn
  BY <1>6, <1>10 DEF GoesOn, httpHistory
<1>11. CASE UNCHANGED httpVars
  BY <1>6, <1>11 DEF httpVars
<1>12. QED
  BY <1>1, <1>2, <1>3, <1>4, <1>7, <1>8, <1>9, <1>10, <1>11 DEF HttpNext, CurlLoop

LEMMA HttpBegins ==
  ASSUME HttpInit
  PROVE  HttpInv
<1>1. /\ m_requests = <<>> /\ m_queued_fetches = <<>> /\ m_all_ongoing = {} /\ cleared = {}
      /\ g_httpfetch_results = [c \in CallerIds |-> <<>>] /\ callerIds = {}
      /\ caller = [u \in HttpUsers |-> NoCaller] /\ sessions = 0
      /\ askedBy = [f \in Fetches |-> Nobody] /\ gotBy = [f \in Fetches |-> <<>>]
  BY DEF HttpInit
<1>2. ToSet(m_requests) = {} /\ Queued = {} /\ Once(<<>>)
  BY <1>1, EmptyQueue DEF Queued
<1>3. Requested = {} /\ Results = {}
  <2>1. \A c \in CallerIds : ToSet(g_httpfetch_results[c]) = {}
    BY <1>1, EmptyQueue
  <2>2. \A o \in Entries : o.id \in CallerIds
    BY DEF Entries
  <2>3. QED
    BY <1>2, <2>1, <2>2 DEF Requested, Results
<1>4. HttpTypes
  BY <1>1 DEF HttpTypes, Nobody
<1>5. Callers
  BY <1>1 DEF Callers, NoCaller, NoOrphanResults
<1>6. Clearing
  BY <1>1, <1>2, <1>3 DEF Clearing, RequestsInOrder
<1>7. HttpOnePlace
  <2>1. \A c \in CallerIds : Once(g_httpfetch_results[c])
    BY <1>1, <1>2
  <2>2. QED
    BY <1>1, <1>2, <1>3, <2>1 DEF HttpOnePlace
<1>8. HttpBooks
  BY <1>1, <1>2, <1>3 DEF HttpBooks, HttpEntries
<1>9. QED
  BY <1>4, <1>5, <1>6, <1>7, <1>8 DEF HttpInv

HasEntry(f) == \E o \in HttpEntries : o.fetch = f

FetchStatusIs ==
  FetchStatus = [f \in Fetches |-> IF askedBy[f] = Nobody THEN "new"
                                   ELSE IF gotBy[f] # <<>> THEN "answered"
                                   ELSE IF HasEntry(f) THEN "pending" ELSE "dropped"]

LEMMA FetchStatusKnown == HttpInv => FetchStatusIs
<1> SUFFICES ASSUME HttpInv PROVE FetchStatusIs
  OBVIOUS
<1>1. ASSUME NEW f \in Fetches PROVE HeldFetch(f) <=> HasEntry(f)
  <2>1. ASSUME NEW n \in DOMAIN m_requests, m_requests[n].fetch = f PROVE HasEntry(f)
    <3>1. m_requests[n] \in HttpRequests /\ m_requests[n] \in ToSet(m_requests)
      BY <2>1, QueueSet DEF HttpInv, HttpTypes
    <3>2. PICK r \in HttpRequests : r = m_requests[n]
      BY <3>1
    <3>3. RequestOK(r) /\ r \in ToSet(m_requests) /\ r.fetch = f
      BY <2>1, <3>1, <3>2 DEF HttpInv, Clearing
    <3>4. r.type = "fetch" /\ r.id \in CallerIds
      BY <3>2, <3>3, HttpFetchAssumption DEF RequestOK, HttpRequests
    <3>5. Ongoing(f, r.id) \in Requested /\ Ongoing(f, r.id).fetch = f
      BY <3>3, <3>4 DEF Requested, Entries, Ongoing, IsFor
    <3>6. QED
      BY <3>5 DEF HasEntry, HttpEntries
  <2>2. ASSUME NEW n \in DOMAIN m_queued_fetches, m_queued_fetches[n].fetch = f PROVE HasEntry(f)
    BY <2>2, QueueSet DEF HttpInv, HttpTypes, HasEntry, HttpEntries, Queued
  <2>3. ASSUME NEW c \in CallerIds, f \in ToSet(g_httpfetch_results[c]) PROVE HasEntry(f)
    <3>1. Ongoing(f, c) \in Results /\ Ongoing(f, c).fetch = f
      BY <2>3 DEF Results, Entries, Ongoing
    <3>2. QED
      BY <3>1 DEF HasEntry, HttpEntries
  <2>4. HeldFetch(f) => HasEntry(f)
    BY <2>1, <2>2, <2>3 DEF HeldFetch, HasEntry, HttpEntries
  <2>5. ASSUME NEW o \in HttpEntries, o.fetch = f PROVE HeldFetch(f)
    <3>1. CASE o \in Requested
      <4>1. PICK r \in ToSet(m_requests) : IsFor(r, o)
        BY <3>1 DEF Requested
      <4>2. PICK n \in DOMAIN m_requests : m_requests[n] = r
        BY QueueSet DEF HttpInv, HttpTypes
      <4>3. QED
        BY <2>5, <4>1, <4>2 DEF HeldFetch, IsFor
    <3>2. CASE o \in Queued
      <4>1. PICK n \in DOMAIN m_queued_fetches : m_queued_fetches[n] = o
        BY <3>2, QueueSet DEF HttpInv, HttpTypes, Queued
      <4>2. QED
        BY <2>5, <4>1 DEF HeldFetch
    <3>3. CASE o \in m_all_ongoing
      BY <2>5, <3>3 DEF HeldFetch
    <3>4. CASE o \in Results
      BY <2>5, <3>4 DEF HeldFetch, Results, Entries
    <3>5. QED
      BY <3>1, <3>2, <3>3, <3>4 DEF HttpEntries
  <2>6. QED
    BY <2>4, <2>5 DEF HasEntry
<1> DEFINE Stated(f) == IF askedBy[f] = Nobody THEN "new"
                        ELSE IF gotBy[f] = <<askedBy[f]>> THEN "answered"
                        ELSE IF gotBy[f] # <<>> THEN "misdelivered"
                        ELSE IF HeldFetch(f) THEN "pending" ELSE "dropped"
           Known(f)  == IF askedBy[f] = Nobody THEN "new" ELSE IF gotBy[f] # <<>> THEN "answered"
                        ELSE IF HasEntry(f) THEN "pending" ELSE "dropped"
<1>2. ASSUME NEW f \in Fetches PROVE Stated(f) = Known(f)
  <2>1. /\ gotBy[f] = <<>> \/ (askedBy[f] # Nobody /\ gotBy[f] = <<askedBy[f]>>)
        /\ <<askedBy[f]>> # <<>>
    BY DEF HttpInv, HttpBooks
  <2>2. HasEntry(f) => askedBy[f] # Nobody /\ gotBy[f] = <<>>
    <3> SUFFICES ASSUME NEW o \in HttpEntries, o.fetch = f
                 PROVE  askedBy[f] # Nobody /\ gotBy[f] = <<>>
      BY DEF HasEntry
    <3>1. PICK u \in HttpUsers : caller[u].id = o.id /\ caller[u].session = askedBy[f]
      BY DEF HttpInv, HttpBooks, Owned
    <3>2. o.id # 0
      BY HttpEntryTypes DEF HttpInv
    <3>3. QED
      BY <3>1, <3>2 DEF HttpInv, HttpBooks, Callers, Nobody
  <2>3. CASE askedBy[f] = Nobody
    BY <1>1, <2>1, <2>2, <2>3
  <2>4. CASE askedBy[f] # Nobody /\ gotBy[f] = <<askedBy[f]>>
    <3>1. gotBy[f] # <<>>
      BY <2>1, <2>4
    <3>2. Known(f) = "answered"
      BY <2>4, <3>1
    <3>3. Stated(f) = "answered"
      BY <2>4
    <3>4. QED
      BY <3>2, <3>3
  <2>5. CASE askedBy[f] # Nobody /\ gotBy[f] = <<>> /\ HasEntry(f)
    BY <1>1, <2>1, <2>5
  <2>6. CASE askedBy[f] # Nobody /\ gotBy[f] = <<>> /\ ~HasEntry(f)
    BY <1>1, <2>1, <2>6
  <2>7. QED
    BY <2>1, <2>3, <2>4, <2>5, <2>6
<1> HIDE DEF Stated, Known
<1>3. [f \in Fetches |-> Stated(f)] = [f \in Fetches |-> Known(f)]
  BY <1>2
<1>4. FetchStatus = [f \in Fetches |-> Stated(f)]
  BY DEF FetchStatus, Stated
<1>5. [f \in Fetches |-> Known(f)] = [f \in Fetches |-> IF askedBy[f] = Nobody THEN "new"
                                   ELSE IF gotBy[f] # <<>> THEN "answered"
                                   ELSE IF HasEntry(f) THEN "pending" ELSE "dropped"]
  BY DEF Known
<1>6. QED
  BY <1>3, <1>4, <1>5 DEF FetchStatusIs

LEMMA HttpImplementsJobs ==
  ASSUME HttpInv, FetchStatusIs, FetchStatusIs', HttpNewStatus
  PROVE  HttpService!Next
<1>1. DOMAIN FetchStatus' = Fetches
  BY DEF FetchStatusIs
<1>2. ASSUME NEW f \in Fetches
      PROVE  FetchStatus'[f] = FetchStatus[f] \/ HttpService!Submit(f)
             \/ HttpService!Answer(f) \/ HttpService!Drop(f)
  <2>1. FetchStatus[f] = IF askedBy[f] = Nobody THEN "new" ELSE IF gotBy[f] # <<>> THEN "answered"
                         ELSE IF HasEntry(f) THEN "pending" ELSE "dropped"
    BY DEF FetchStatusIs
  <2>2. FetchStatus'[f] = IF askedBy'[f] = Nobody THEN "new" ELSE IF gotBy'[f] # <<>> THEN "answered"
                          ELSE IF HasEntry(f)' THEN "pending" ELSE "dropped"
    BY DEF FetchStatusIs
  <2>3. /\ DOMAIN askedBy = Fetches /\ DOMAIN gotBy = Fetches
        /\ askedBy[f] = Nobody => gotBy[f] = <<>>
    BY DEF HttpInv, HttpTypes, HttpBooks
  <2>4. \A o \in HttpEntries : gotBy[o.fetch] = <<>> /\ askedBy[o.fetch] # Nobody
    <3> SUFFICES ASSUME NEW o \in HttpEntries
                 PROVE  gotBy[o.fetch] = <<>> /\ askedBy[o.fetch] # Nobody
      OBVIOUS
    <3>1. PICK u \in HttpUsers : caller[u].id = o.id /\ caller[u].session = askedBy[o.fetch]
      BY DEF HttpInv, HttpBooks, Owned
    <3>2. o.id # 0
      BY HttpEntryTypes DEF HttpInv
    <3>3. QED
      BY <3>1, <3>2 DEF HttpInv, HttpBooks, Callers, Nobody
  <2>5. CASE UNCHANGED <<askedBy, gotBy, HttpEntries>>
    BY <2>1, <2>2, <2>5 DEF HasEntry
  <2>6. CASE \E o \in Entries, s \in Nat \ {0} :
               /\ askedBy[o.fetch] = Nobody /\ askedBy' = [askedBy EXCEPT ![o.fetch] = s]
               /\ gotBy' = gotBy /\ HttpEntries' = HttpEntries \union {o}
    <3>1. PICK o \in Entries, s \in Nat \ {0} :
               /\ askedBy[o.fetch] = Nobody /\ askedBy' = [askedBy EXCEPT ![o.fetch] = s]
               /\ gotBy' = gotBy /\ HttpEntries' = HttpEntries \union {o}
      BY <2>6
    <3>2. CASE f = o.fetch
      <4>1. askedBy'[f] = s /\ s # Nobody /\ HasEntry(f)' /\ gotBy'[f] = <<>>
        BY <2>3, <3>1, <3>2 DEF HasEntry, Nobody
      <4>2. QED
        BY <2>1, <2>2, <3>1, <3>2, <4>1 DEF HttpService!Submit
    <3>3. CASE f # o.fetch
      <4>1. askedBy'[f] = askedBy[f] /\ (HasEntry(f)' <=> HasEntry(f))
        BY <2>3, <3>1, <3>3 DEF HasEntry
      <4>2. QED
        BY <2>1, <2>2, <3>1, <4>1
    <3>4. QED
      BY <3>2, <3>3
  <2>7. CASE \E o \in HttpEntries :
               /\ gotBy' = [gotBy EXCEPT ![o.fetch] = <<askedBy[o.fetch]>>]
               /\ askedBy' = askedBy /\ HttpEntries' = HttpEntries \ {o}
    <3>1. PICK o \in HttpEntries :
               /\ gotBy' = [gotBy EXCEPT ![o.fetch] = <<askedBy[o.fetch]>>]
               /\ askedBy' = askedBy /\ HttpEntries' = HttpEntries \ {o}
      BY <2>7
    <3>2. CASE f = o.fetch
      <4>1. gotBy'[f] # <<>> /\ gotBy[f] = <<>> /\ askedBy[f] # Nobody /\ HasEntry(f)
        BY <2>3, <2>4, <3>1, <3>2 DEF HasEntry
      <4>2. QED
        BY <2>1, <2>2, <3>1, <4>1 DEF HttpService!Answer
    <3>3. CASE f # o.fetch
      <4>1. gotBy'[f] = gotBy[f] /\ (HasEntry(f)' <=> HasEntry(f))
        BY <2>3, <3>1, <3>3 DEF HasEntry
      <4>2. QED
        BY <2>1, <2>2, <3>1, <4>1
    <3>4. QED
      BY <3>2, <3>3
  <2>8. CASE /\ UNCHANGED <<askedBy, gotBy>>
             /\ HttpEntries' \subseteq HttpEntries
             /\ \A o \in HttpEntries \ HttpEntries' : o.fetch \in HttpExcused'
    <3>1. HasEntry(f)' => HasEntry(f)
      BY <2>8 DEF HasEntry
    <3>2. CASE HasEntry(f) /\ ~HasEntry(f)'
      <4>1. f \in HttpExcused'
        BY <2>8, <3>2 DEF HasEntry
      <4>2. gotBy[f] = <<>> /\ askedBy[f] # Nobody
        BY <2>4, <3>2 DEF HasEntry
      <4>3. QED
        BY <2>1, <2>2, <2>8, <3>2, <4>1, <4>2 DEF HttpService!Drop, HttpExcused
    <3>3. CASE HasEntry(f)' <=> HasEntry(f)
      BY <2>1, <2>2, <2>8, <3>3
    <3>4. QED
      BY <3>1, <3>2, <3>3
  <2>9. QED
    BY <2>5, <2>6, <2>7, <2>8 DEF HttpNewStatus
<1>3. QED
  BY <1>1, <1>2 DEF HttpService!Next

LEMMA HttpMoves ==
  ASSUME [WorkersNext]_workersVars
  PROVE  [HttpNext]_httpVars
<1>1. CASE WorkersNext
  BY <1>1 DEF WorkersNext, AbmPart, AsyncPart, HttpPart, MeshPart, MediaPart, EmergePart, PeersPart
<1>2. CASE UNCHANGED workersVars
  BY <1>2 DEF workersVars
<1>3. QED
  BY <1>1, <1>2

LEMMA HttpAlways == WorkersSpec => []HttpInv
<1>1. WorkersInit => HttpInv
  BY HttpBegins DEF WorkersInit
<1>2. HttpInv /\ [WorkersNext]_workersVars => HttpInv'
  BY HttpMoves, HttpKeeps
<1>3. QED
  BY <1>1, <1>2, PTL DEF WorkersSpec

(* A result goes to the one who asked for it, once, for any number of      *)
(* threads, ids and fetches (httpfetch.cpp): also when the id was freed    *)
(* and given to another meanwhile.  A fetch is lost only when the caller   *)
(* was freed or the program ends.                                          *)
THEOREM WorkersDoEachFetchOnce == WorkersSpec => EachFetchOnce
<1>1. WorkersInit => HttpService!Init
  <2> SUFFICES ASSUME WorkersInit PROVE HttpService!Init
    OBVIOUS
  <2>1. HttpInv /\ \A f \in Fetches : askedBy[f] = Nobody
    BY HttpBegins DEF WorkersInit, HttpInit
  <2>2. QED
    BY <2>1, FetchStatusKnown DEF FetchStatusIs, HttpService!Init
<1>2. HttpInv /\ FetchStatusIs /\ FetchStatusIs' /\ [WorkersNext]_workersVars
        => [HttpService!Next]_<<FetchStatus, IF curlStop THEN Fetches ELSE Unwanted>>
  BY HttpMoves, HttpKeeps, HttpImplementsJobs
<1>3. QED
  BY <1>1, <1>2, HttpAlways, FetchStatusKnown, PTL DEF WorkersSpec, EachFetchOnce, HttpService!Spec

(* So the three components keep the promise of a service (module Jobs):    *)
(* an answer for every job that was accepted, no more than one, and none   *)
(* dropped without a reason.                                               *)
THEOREM WorkersDoEachJobIsDoneOnce == WorkersSpec => EachJobIsDoneOnce
BY WorkersDoEachBlockOnce, WorkersDoEachJobOnce, WorkersDoEachFetchOnce DEF EachJobIsDoneOnce

-----------------------------------------------------------------------------
(* Sequences of the elements of a set, and without one of their places.    *)

LEMMA SetInSequence ==
  ASSUME NEW S, IsFiniteSet(S)
  PROVE  /\ SetToSeq(S) \in Seq(S)
         /\ ToSet(SetToSeq(S)) = S
<1> DEFINE n == Cardinality(S)
           f == SetToSeq(S)
<1>1. n \in Nat /\ Bijection(1 .. n, S) # {}
  BY FS_CardinalityType DEF ExistsBijection
<1>2. PICK g : g \in [1 .. n -> S] /\ IsInjective(g)
  BY <1>1 DEF Bijection, Injection
<1>3. f \in [1 .. n -> S] /\ IsInjective(f)
  <2>1. \E x \in [1 .. n -> S] : IsInjective(x)
    BY <1>2
  <2>2. f = CHOOSE x \in [1 .. n -> S] : IsInjective(x)
    BY DEF SetToSeq
  <2> HIDE DEF f, n
  <2>3. QED
    BY <2>1, <2>2, Zenon
<1> HIDE DEF f
<1>4. f \in Injection(1 .. n, S)
  BY <1>3 DEF Injection
<1>5. Cardinality(1 .. n) = n
  BY <1>1, FS_Interval
<1>6. f \in Surjection(1 .. n, S)
  BY <1>4, <1>5, FS_Injection
<1>7. f \in Seq(S) /\ Len(f) = n
  BY <1>1, <1>3
<1>8. ToSet(f) = {f[i] : i \in 1 .. n}
  BY <1>7, QueueSet
<1>9. \A e \in S : \E i \in 1 .. n : f[i] = e
  BY <1>6 DEF Surjection
<1>10. ToSet(f) = S
  BY <1>3, <1>8, <1>9
<1>11. QED
  BY <1>7, <1>10 DEF f

LEMMA OnePlaceOut ==
  ASSUME NEW S, NEW s \in Seq(S), NEW n \in 1 .. Len(s)
  PROVE  /\ RemoveAt(s, n) \in Seq(S) /\ Len(RemoveAt(s, n)) = Len(s) - 1
         /\ \A k \in 1 .. Len(s) - 1 :
              RemoveAt(s, n)[k] = s[IF k < n THEN k ELSE k + 1]
         /\ ToSet(RemoveAt(s, n)) = {s[k] : k \in 1 .. Len(s) \ {n}}
<1> DEFINE l == Len(s)
           t == RemoveAt(s, n)
           Old(k) == IF k < n THEN k ELSE k + 1
<1>1. l \in Nat /\ n \in Nat /\ 1 <= n /\ n <= l
  OBVIOUS
<1>2. /\ SubSeq(s, 1, n - 1) \in Seq(S) /\ Len(SubSeq(s, 1, n - 1)) = n - 1
      /\ \A k \in 1 .. n - 1 : SubSeq(s, 1, n - 1)[k] = s[k]
  OBVIOUS
<1>3. /\ SubSeq(s, n + 1, l) \in Seq(S) /\ Len(SubSeq(s, n + 1, l)) = l - n
      /\ \A k \in 1 .. l - n : SubSeq(s, n + 1, l)[k] = s[n + k]
  OBVIOUS
<1>4. t = SubSeq(s, 1, n - 1) \o SubSeq(s, n + 1, l)
  BY DEF RemoveAt
<1>5. PICK a \in Seq(S) : a = SubSeq(s, 1, n - 1)
  BY <1>2
<1>6. PICK b \in Seq(S) : b = SubSeq(s, n + 1, l)
  BY <1>3
<1>7. /\ t = a \o b /\ Len(a) = n - 1 /\ Len(b) = l - n
      /\ \A k \in 1 .. n - 1 : a[k] = s[k]
      /\ \A k \in 1 .. l - n : b[k] = s[n + k]
  BY <1>2, <1>3, <1>4, <1>5, <1>6
<1> HIDE DEF t, l
<1>8. t \in Seq(S) /\ Len(t) = l - 1
  <2>1. a \o b \in Seq(S) /\ Len(a \o b) = Len(a) + Len(b)
    OBVIOUS
  <2>2. (n - 1) + (l - n) = l - 1
    BY <1>1
  <2>3. QED
    BY <1>7, <2>1, <2>2
<1>9. \A k \in 1 .. l - 1 : t[k] = s[Old(k)]
  <2> SUFFICES ASSUME NEW k \in 1 .. l - 1 PROVE t[k] = s[Old(k)]
    OBVIOUS
  <2>1. CASE k < n
    <3>1. k \in 1 .. n - 1 /\ k \in 1 .. Len(a)
      BY <1>1, <1>7, <2>1
    <3>2. (a \o b)[k] = a[k]
      BY <3>1
    <3>3. QED
      BY <1>7, <2>1, <3>1, <3>2
  <2>2. CASE ~(k < n)
    <3>1. k - (n - 1) \in 1 .. l - n /\ n + (k - (n - 1)) = k + 1
      BY <1>1, <2>2
    <3>2. (a \o b)[k] = b[k - Len(a)]
      <4>1. k \in Len(a) + 1 .. Len(a) + Len(b)
        BY <1>1, <1>7, <2>2
      <4>2. QED
        BY <4>1
    <3>3. QED
      BY <1>7, <2>2, <3>1, <3>2
  <2>3. QED
    BY <2>1, <2>2
<1>10. ToSet(t) = {t[k] : k \in 1 .. l - 1}
  BY <1>8, QueueSet
<1>11. ToSet(t) = {s[k] : k \in 1 .. l \ {n}}
  <2>1. ASSUME NEW k \in 1 .. l - 1 PROVE Old(k) \in 1 .. l \ {n}
    BY <1>1
  <2>2. ASSUME NEW k \in 1 .. l \ {n} PROVE \E i \in 1 .. l - 1 : Old(i) = k
    <3>1. CASE k < n
      <4>1. k \in 1 .. l - 1 /\ Old(k) = k
        BY <1>1, <3>1
      <4>2. QED
        BY <4>1
    <3>2. CASE k > n
      <4>1. k - 1 \in 1 .. l - 1 /\ Old(k - 1) = k
        BY <1>1, <3>2
      <4>2. QED
        BY <4>1
    <3>3. QED
      BY <1>1, <3>1, <3>2
  <2> HIDE DEF Old
  <2>3. QED
    BY <1>9, <1>10, <2>1, <2>2
<1>12. QED
  BY <1>8, <1>9, <1>11 DEF t, l

-----------------------------------------------------------------------------
(* Meshes.  Of each block there is at most one entry in the queue, and the *)
(* copies it needs are as the blocks are: only of the block whose task     *)
(* comes next the copy may be old, and its neighbours' tasks come after.   *)
Shows(of, p) == \A b \in FacesOf[p] \union {p} : cmap[b] # 0 => of[b] = cmap[b]

TaskOf(p)   == \E t \in ToSet(tasks) : t.op = "add" /\ t.p = p
QueuedOf(p) == \E q \in ToSet(m_queue) : q.p = p
Making(p)   == meshw.pc = "making" /\ meshw.p = p
Waits(p)    == TaskOf(p) \/ QueuedOf(p)

QueuedBlocks == {p \in MeshBlocks : QueuedOf(p)}

(* The entries of one block in the queue of results, the newest of them.   *)
MadeOf(p)      == \E n \in 1 .. Len(m_queue_out) : m_queue_out[n].p = p
NewestOf(p, n) == /\ m_queue_out[n].p = p
                  /\ \A k \in 1 .. Len(m_queue_out) : k > n => m_queue_out[k].p # p

MeshTasks   == [op : {"add", "post"}, p : MeshBlocks \union {NoMeshBlock}, ack : BOOLEAN,
                urgent : BOOLEAN]
MeshQueued  == [p : MeshBlocks, ack : BOOLEAN]
MadeMeshes  == [MeshBlocks -> Nat]
MeshResults == [p : MeshBlocks, ack : BOOLEAN, of : MadeMeshes]

MeshTypes ==
  /\ changes \in 0 .. MaxChanges
  /\ cmap \in [MeshBlocks -> 0 .. MaxChanges] /\ cmesh \in [MeshBlocks -> MadeMeshes]
  /\ m_cache \in [MeshBlocks -> [in : BOOLEAN, data : 0 .. MaxChanges, refcount : Nat]]
  /\ m_queue \in Seq(MeshQueued) /\ m_urgents \subseteq MeshBlocks
  /\ m_update_sem \in Nat
  /\ meshw \in [pc : {"wait", "drain", "woken", "pop", "making", "ended"},
                p : MeshBlocks \union {NoMeshBlock}, ack : BOOLEAN, of : MadeMeshes]
  /\ meshw.pc = "making" => meshw.p \in MeshBlocks
  /\ m_queue_out \in Seq(MeshResults)
  /\ tasks \in Seq(MeshTasks)
  /\ \A t \in ToSet(tasks) : t.op = "add" => t.p \in MeshBlocks
  /\ replacing \in BOOLEAN /\ meshStop \in BOOLEAN
  /\ blocks_to_ack \in Seq(MeshBlocks) /\ Len(blocks_to_ack) <= MAX_GOT_BLOCKS
  /\ unacked \subseteq MeshBlocks

QueuedOnce == \A n, k \in 1 .. Len(m_queue) : m_queue[n].p = m_queue[k].p => n = k

CopiesAreHeld ==
  /\ \A b \in MeshBlocks :
       m_cache[b].refcount = Cardinality({p \in QueuedBlocks : b \in AroundOf[p]})
  /\ \A b \in MeshBlocks : m_cache[b].refcount > 0 => m_cache[b].in
  /\ \A p \in m_urgents : QueuedOf(p)

TaskIsNext(b) == /\ tasks # <<>> /\ Head(tasks).op = "add" /\ Head(tasks).p = b
                 /\ \A p \in FacesOf[b] : cmap[p] # 0 => TaskOf(p)

CopiesAreFresh ==
  \A b \in MeshBlocks :
    m_cache[b].in /\ cmap[b] # 0 /\ m_cache[b].data # cmap[b] => TaskIsNext(b)

NewestIs(p) ==
  /\ Making(p) => Shows(meshw.of, p)
  /\ ~Making(p) =>
       /\ \A n \in 1 .. Len(m_queue_out) : NewestOf(p, n) => Shows(m_queue_out[n].of, p)
       /\ ~MadeOf(p) => Shows(cmesh[p], p)

NewestShows == \A p \in MeshBlocks : cmap[p] # 0 /\ ~Waits(p) => NewestIs(p)

AckDue(p) ==
  \/ \E t \in ToSet(tasks) : t.op = "add" /\ t.p = p /\ t.ack
  \/ \E q \in ToSet(m_queue) : q.p = p /\ q.ack
  \/ Making(p) /\ meshw.ack
  \/ \E r \in ToSet(m_queue_out) : r.p = p /\ r.ack
  \/ p \in ToSet(blocks_to_ack)

AcksAreDue == \A p \in unacked : AckDue(p)

MeshInv == MeshTypes /\ QueuedOnce /\ CopiesAreHeld /\ CopiesAreFresh /\ NewestShows /\ AcksAreDue

(* The tasks for a block that has changed and its neighbours.              *)
LEMMA TasksForChange ==
  ASSUME NEW p \in MeshBlocks, NEW ack \in BOOLEAN, NEW urgent \in BOOLEAN
  PROVE  LET ts == UpdateTasks(WithEdge(p), ack, urgent)
         IN  /\ ts \in Seq(MeshTasks) /\ ts # <<>>
             /\ Head(ts) = Task("add", p, ack, urgent) /\ Head(ts) \in ToSet(ts)
             /\ \A t \in ToSet(ts) : t.p \in MeshBlocks
             /\ \A q \in FacesOf[p] : cmap'[q] # 0 => \E t \in ToSet(ts) : t.op = "add" /\ t.p = q
<1> DEFINE N  == {q \in FacesOf[p] : cmap'[q] # 0}
           ps == WithEdge(p)
           ts == UpdateTasks(ps, ack, urgent)
           T(n) == Task(IF n % 2 = 1 THEN "add" ELSE "post", ps[(n + 1) \div 2],
                        ack /\ n = 1, urgent)
<1>1. N \subseteq MeshBlocks /\ IsFiniteSet(N)
  <2>1. N \subseteq MeshBlocks /\ IsFiniteSet(MeshBlocks)
    BY MeshAssumption
  <2>2. QED
    BY <2>1, FS_Subset
<1>2. PICK e : e = SetToSeq(N)
  OBVIOUS
<1>3. e \in Seq(N) /\ ToSet(e) = N
  BY <1>1, <1>2, SetInSequence
<1>4. e \in Seq(MeshBlocks) /\ Len(e) \in Nat /\ \A q \in N : \E i \in 1 .. Len(e) : e[i] = q
  <2>1. e \in Seq(MeshBlocks)
    BY <1>1, <1>3
  <2>2. QED
    BY <2>1, <1>3, QueueSet
<1>5. ps = <<p>> \o e
  BY <1>2 DEF WithEdge
<1>6. /\ ps \in Seq(MeshBlocks) /\ Len(ps) = Len(e) + 1 /\ ps[1] = p
      /\ \A i \in 1 .. Len(e) : ps[i + 1] = e[i]
  BY <1>4, <1>5
<1>7. ts = [n \in 1 .. 2 * Len(ps) |-> T(n)]
  BY DEF UpdateTasks
<1> HIDE DEF ps, ts, N
<1>8. PICK l \in Nat : l = Len(ps) /\ l >= 1
  BY <1>4, <1>6
<1>9. \A n \in 1 .. 2 * l : (n + 1) \div 2 \in 1 .. l
  BY <1>8
<1>10. \A n \in 1 .. 2 * l : T(n) \in MeshTasks /\ T(n).p \in MeshBlocks
  BY <1>6, <1>8, <1>9 DEF MeshTasks, Task
<1>11. ts \in Seq(MeshTasks) /\ Len(ts) = 2 * l /\ ts # <<>>
  <2>1. 2 * l \in Nat /\ 2 * l >= 1
    BY <1>8
  <2> HIDE DEF T
  <2>2. QED
    BY <1>7, <1>8, <1>10, <2>1
<1>12. /\ \A n \in 1 .. 2 * l : ts[n] = T(n)
       /\ ToSet(ts) = {ts[n] : n \in 1 .. 2 * l}
  <2> HIDE DEF T
  <2>1. QED
    BY <1>7, <1>8, <1>11, QueueSet
<1>13. Head(ts) = Task("add", p, ack, urgent) /\ Head(ts) \in ToSet(ts)
  <2>1. Head(ts) = ts[1] /\ 1 \in 1 .. 2 * l
    BY <1>8, <1>11
  <2>2. T(1) = Task("add", p, ack, urgent)
    BY <1>6
  <2> HIDE DEF T
  <2>3. QED
    BY <1>12, <2>1, <2>2
<1>14. \A t \in ToSet(ts) : t.p \in MeshBlocks
  <2> HIDE DEF T
  <2>1. QED
    BY <1>10, <1>12
<1>15. ASSUME NEW q \in N PROVE \E t \in ToSet(ts) : t.op = "add" /\ t.p = q
  <2>1. PICK i \in 1 .. Len(e) : e[i] = q
    BY <1>4
  <2>2. PICK k \in Nat : k = i + 1 /\ k \in 1 .. l /\ ps[k] = q
    BY <1>4, <1>6, <1>8, <2>1
  <2>3. 2 * k - 1 \in 1 .. 2 * l /\ (2 * k - 1) % 2 = 1 /\ ((2 * k - 1) + 1) \div 2 = k
    BY <2>2
  <2>4. T(2 * k - 1).op = "add" /\ T(2 * k - 1).p = q
    BY <2>2, <2>3 DEF Task
  <2> HIDE DEF T
  <2>5. QED
    BY <1>12, <2>3, <2>4
<1>16. QED
  BY <1>11, <1>13, <1>14, <1>15 DEF N, ts, ps

(* What the newest mesh of a block shows depends on this much.             *)
LEMMA NewestSame ==
  ASSUME NEW q \in MeshBlocks, NewestIs(q),
         \A b \in FacesOf[q] \union {q} : cmap'[b] = cmap[b] \/ cmap'[b] = 0,
         meshw' = meshw, m_queue_out' = m_queue_out, cmesh'[q] = cmesh[q]
  PROVE  NewestIs(q)'
<1>1. ASSUME NEW of, Shows(of, q)
      PROVE  \A b \in FacesOf[q] \union {q} : cmap'[b] # 0 => of[b] = cmap'[b]
  BY <1>1 DEF Shows
<1>2. Making(q)' = Making(q) /\ MadeOf(q)' = MadeOf(q)
  BY DEF Making, MadeOf
<1>3. Making(q) => Shows(meshw.of, q)'
  BY <1>1 DEF NewestIs, Shows
<1>4. ~Making(q) /\ ~MadeOf(q) => Shows(cmesh[q], q)'
  BY <1>1 DEF NewestIs, Shows
<1>5. ASSUME ~Making(q), NEW n \in 1 .. Len(m_queue_out), NewestOf(q, n)
      PROVE  Shows(m_queue_out[n].of, q)'
  BY <1>1, <1>5 DEF NewestIs, Shows
<1>6. \A n : NewestOf(q, n)' <=> NewestOf(q, n)
  BY DEF NewestOf
<1>7. QED
  BY <1>2, <1>3, <1>4, <1>5, <1>6 DEF NewestIs

(* A block gets new data: its tasks are all there are.                     *)
LEMMA ChangeKeeps ==
  ASSUME MeshInv, NEW p \in MeshBlocks, NEW ack \in BOOLEAN, NEW urgent \in BOOLEAN,
         MainIsFree, ChangeBlock(p), tasks' = UpdateTasks(WithEdge(p), ack, urgent),
         unacked' = unacked \union (IF ack THEN {p} ELSE {}),
         UNCHANGED <<cmesh, meshQueueVars, m_update_sem, meshw, m_queue_out, replacing,
                     blocks_to_ack, meshStop>>
  PROVE  MeshInv'
<1>1. /\ tasks' \in Seq(MeshTasks) /\ tasks' # <<>>
      /\ Head(tasks') = Task("add", p, ack, urgent) /\ Head(tasks') \in ToSet(tasks')
      /\ \A t \in ToSet(tasks') : t.p \in MeshBlocks
      /\ \A q \in FacesOf[p] : cmap'[q] # 0 => \E t \in ToSet(tasks') : t.op = "add" /\ t.p = q
  BY TasksForChange
<1>2. /\ Head(tasks').op = "add" /\ Head(tasks').p = p /\ Head(tasks').ack = ack
  BY <1>1 DEF Task
<1>3. /\ changes' \in 0 .. MaxChanges /\ cmap' \in [MeshBlocks -> 0 .. MaxChanges]
      /\ \A q \in MeshBlocks \ {p} : cmap'[q] = cmap[q]
  BY MeshAssumption DEF MeshInv, MeshTypes, ChangeBlock
<1>4. ToSet(tasks) = {}
  BY EmptyQueue DEF MainIsFree
<1>5. /\ \A q \in MeshBlocks : QueuedOf(q)' <=> QueuedOf(q)
      /\ QueuedBlocks' = QueuedBlocks
  BY DEF QueuedOf, QueuedBlocks, meshQueueVars
<1>6. MeshTypes'
  <2>1. /\ cmesh' = cmesh /\ m_cache' = m_cache /\ m_queue' = m_queue /\ m_urgents' = m_urgents
        /\ m_update_sem' = m_update_sem /\ meshw' = meshw /\ m_queue_out' = m_queue_out
        /\ replacing' = replacing /\ blocks_to_ack' = blocks_to_ack /\ meshStop' = meshStop
    BY DEF meshQueueVars
  <2>2. unacked' \subseteq MeshBlocks
    BY DEF MeshInv, MeshTypes
  <2>3. MeshTypes
    BY DEF MeshInv
  <2>4. QED
    <3>1. /\ cmesh' \in [MeshBlocks -> MadeMeshes]
          /\ m_cache' \in [MeshBlocks -> [in : BOOLEAN, data : 0 .. MaxChanges, refcount : Nat]]
          /\ m_queue' \in Seq(MeshQueued) /\ m_urgents' \subseteq MeshBlocks
      BY <2>1, <2>3 DEF MeshTypes
    <3>2. /\ m_update_sem' \in Nat
          /\ meshw' \in [pc : {"wait", "drain", "woken", "pop", "making", "ended"},
                         p : MeshBlocks \union {NoMeshBlock}, ack : BOOLEAN, of : MadeMeshes]
          /\ meshw'.pc = "making" => meshw'.p \in MeshBlocks
      BY <2>1, <2>3 DEF MeshTypes
    <3>3. /\ m_queue_out' \in Seq(MeshResults)
          /\ replacing' \in BOOLEAN /\ meshStop' \in BOOLEAN
          /\ blocks_to_ack' \in Seq(MeshBlocks) /\ Len(blocks_to_ack') <= MAX_GOT_BLOCKS
      BY <2>1, <2>3 DEF MeshTypes
    <3>4. QED
      BY <1>1, <1>3, <2>2, <3>1, <3>2, <3>3, Zenon DEF MeshTypes
<1>7. QueuedOnce'
  BY DEF MeshInv, QueuedOnce, meshQueueVars
<1>8. CopiesAreHeld'
  BY <1>5 DEF MeshInv, MeshTypes, CopiesAreHeld, meshQueueVars
<1>9. \A q \in FacesOf[p] : cmap'[q] # 0 => TaskOf(q)'
  BY <1>1 DEF TaskOf
<1>10. TaskOf(p)'
  BY <1>1, <1>2 DEF TaskOf
<1>11. CopiesAreFresh'
  <2> SUFFICES ASSUME NEW b \in MeshBlocks, m_cache'[b].in, cmap'[b] # 0,
                      m_cache'[b].data # cmap'[b]
               PROVE  TaskIsNext(b)'
    BY DEF CopiesAreFresh
  <2>1. CASE b = p
    BY <1>1, <1>2, <1>9, <2>1 DEF TaskIsNext
  <2>2. CASE b # p
    <3>1. TaskIsNext(b)
      BY <1>3, <2>2 DEF MeshInv, CopiesAreFresh, meshQueueVars
    <3>2. QED
      BY <3>1 DEF TaskIsNext, MainIsFree
  <2>3. QED
    BY <2>1, <2>2
<1>12. NewestShows'
  <2> SUFFICES ASSUME NEW q \in MeshBlocks, cmap'[q] # 0, ~Waits(q)'
               PROVE  NewestIs(q)'
    BY DEF NewestShows
  <2>1. q # p /\ q \notin FacesOf[p]
    BY <1>9, <1>10 DEF Waits
  <2>2. p \notin FacesOf[q] /\ FacesOf[q] \subseteq MeshBlocks
    BY <2>1, MeshAssumption
  <2>3. \A b \in FacesOf[q] \union {q} : cmap'[b] = cmap[b]
    BY <1>3, <2>1, <2>2
  <2>4. cmap[q] # 0 /\ ~Waits(q)
    BY <1>3, <1>4, <1>5, <2>1 DEF Waits, TaskOf
  <2>5. NewestIs(q)
    BY <2>4 DEF MeshInv, NewestShows
  <2>6. meshw' = meshw /\ m_queue_out' = m_queue_out /\ cmesh' = cmesh
    OBVIOUS
  <2>7. QED
    BY <2>3, <2>5, <2>6, NewestSame
<1>13. AcksAreDue'
  <2> SUFFICES ASSUME NEW q \in unacked' PROVE AckDue(q)'
    BY DEF AcksAreDue
  <2>1. CASE q = p /\ ack
    BY <1>1, <1>2, <2>1 DEF AckDue
  <2>2. CASE q \in unacked
    <3>1. AckDue(q)
      BY <2>2 DEF MeshInv, AcksAreDue
    <3>2. QED
      BY <1>4, <3>1 DEF AckDue, Making, meshQueueVars
  <2>3. QED
    BY <2>1, <2>2
<1>14. QED
  BY <1>6, <1>7, <1>8, <1>11, <1>12, <1>13 DEF MeshInv

(* What addBlock does to the queue and to the copies.                      *)
LEMMA QueueAdded ==
  ASSUME MeshInv, NEW p \in MeshBlocks, NEW ack \in BOOLEAN, NEW urgent \in BOOLEAN,
         addBlock(p, ack, urgent)
  PROVE  /\ m_queue' \in Seq(MeshQueued) /\ QueuedOnce'
         /\ \A q \in MeshBlocks : QueuedOf(q)' <=> QueuedOf(q) \/ q = p
         /\ \A e \in ToSet(m_queue) :
              \E d \in ToSet(m_queue') : d.p = e.p /\ (e.ack => d.ack)
         /\ \E d \in ToSet(m_queue') : d.p = p /\ (ack => d.ack)
<1>1. m_queue \in Seq(MeshQueued) /\ QueuedOnce
  BY DEF MeshInv, MeshTypes
<1>2. PICK l \in Nat : l = Len(m_queue)
  BY <1>1
<1>3. /\ DOMAIN m_queue = 1 .. l /\ \A n \in 1 .. l : m_queue[n] \in MeshQueued
      /\ ToSet(m_queue) = {m_queue[n] : n \in 1 .. l}
  BY <1>1, <1>2, QueueSet
<1>4. \A n, k \in 1 .. l : m_queue[n].p = m_queue[k].p => n = k
  BY <1>1, <1>2 DEF QueuedOnce
<1>5. CASE QueuedAt(p) # {}
  <2>1. m_queue' = [n \in 1 .. l |-> IF n \in QueuedAt(p)
                                     THEN [p |-> p, ack |-> m_queue[n].ack \/ ack]
                                     ELSE m_queue[n]]
    BY <1>3, <1>5 DEF addBlock
  <2>2. \A n \in 1 .. l : n \in QueuedAt(p) <=> m_queue[n].p = p
    BY <1>3 DEF QueuedAt
  <2>3. \A n \in 1 .. l : /\ m_queue'[n] \in MeshQueued /\ m_queue'[n].p = m_queue[n].p
                          /\ m_queue[n].ack => m_queue'[n].ack
                          /\ m_queue[n].p = p /\ ack => m_queue'[n].ack
    BY <1>3, <2>1, <2>2 DEF MeshQueued
  <2>4. m_queue' \in Seq(MeshQueued) /\ Len(m_queue') = l
    BY <2>1, <2>3
  <2>5. ToSet(m_queue') = {m_queue'[n] : n \in 1 .. l}
    BY <2>4, QueueSet
  <2>6. QueuedOnce'
    BY <1>4, <2>3, <2>4 DEF QueuedOnce
  <2>7. PICK k \in 1 .. l : m_queue[k].p = p
    BY <1>3, <1>5 DEF QueuedAt
  <2>8. \A q \in MeshBlocks : QueuedOf(q)' <=> QueuedOf(q)
    BY <1>3, <2>3, <2>5 DEF QueuedOf
  <2>9. QueuedOf(p)
    BY <1>3, <2>7 DEF QueuedOf
  <2>10. QED
    BY <1>3, <2>3, <2>4, <2>5, <2>6, <2>7, <2>8, <2>9
<1>6. CASE QueuedAt(p) = {}
  <2> DEFINE e == [p |-> p, ack |-> ack]
  <2>1. m_queue' = Append(m_queue, e)
    BY <1>6 DEF addBlock
  <2>2. e \in MeshQueued
    BY DEF MeshQueued
  <2>3. m_queue' \in Seq(MeshQueued) /\ ToSet(m_queue') = ToSet(m_queue) \union {e}
    BY <1>1, <2>1, <2>2, PutLast
  <2>4. /\ Len(m_queue') = l + 1 /\ m_queue'[l + 1] = e
        /\ \A n \in 1 .. l : m_queue'[n] = m_queue[n]
    BY <1>1, <1>2, <2>1, <2>2
  <2>5. \A n \in 1 .. l : m_queue[n].p # p
    BY <1>3, <1>6 DEF QueuedAt
  <2>6. e.p = p /\ e.ack = ack
    OBVIOUS
  <2> HIDE DEF e
  <2>7. \A n \in 1 .. l + 1 : n \in 1 .. l \/ n = l + 1
    OBVIOUS
  <2>8. QueuedOnce'
    BY <1>4, <2>4, <2>5, <2>6, <2>7 DEF QueuedOnce
  <2>9. \A q \in MeshBlocks : QueuedOf(q)' <=> QueuedOf(q) \/ q = p
    BY <2>3, <2>6 DEF QueuedOf
  <2>10. QED
    BY <2>3, <2>6, <2>8, <2>9
<1>7. QED
  BY <1>5, <1>6

LEMMA CopiesAdded ==
  ASSUME MeshInv, NEW p \in MeshBlocks, NEW ack \in BOOLEAN, NEW urgent \in BOOLEAN,
         addBlock(p, ack, urgent)
  PROVE  /\ m_cache' \in [MeshBlocks -> [in : BOOLEAN, data : 0 .. MaxChanges, refcount : Nat]]
         /\ m_cache'[p].data = cmap[p]
         /\ \A b \in MeshBlocks :
              /\ m_cache'[b].refcount = IF ~QueuedOf(p) /\ b \in AroundOf[p]
                                        THEN m_cache[b].refcount + 1 ELSE m_cache[b].refcount
              /\ m_cache'[b].refcount > 0 => m_cache'[b].in
              /\ m_cache'[b].in =>
                   m_cache'[b].data = cmap[b]
                   \/ (m_cache[b].in /\ m_cache'[b].data = m_cache[b].data)
<1> DEFINE Cached == [in : BOOLEAN, data : 0 .. MaxChanges, refcount : Nat]
<1>1. PICK gone \in SUBSET MayGo :
        LET kept   == cleanupCache(gone)
            cached == [b \in MeshBlocks |->
                         IF b \in AroundOf[p] THEN cacheBlock(kept, b, b = p) ELSE kept[b]]
        IN  IF QueuedAt(p) # {} THEN m_cache' = cached
            ELSE m_cache' = [b \in MeshBlocks |->
                               IF b \in AroundOf[p]
                               THEN [cached[b] EXCEPT !.refcount = @ + 1]
                               ELSE cached[b]]
  BY DEF addBlock
<1> DEFINE kept == cleanupCache(gone)
           cached == [b \in MeshBlocks |->
                        IF b \in AroundOf[p] THEN cacheBlock(kept, b, b = p) ELSE kept[b]]
<1>2. m_cache \in [MeshBlocks -> Cached] /\ cmap \in [MeshBlocks -> 0 .. MaxChanges]
  BY DEF MeshInv, MeshTypes
<1>3. QueuedAt(p) # {} <=> QueuedOf(p)
  <2>1. DOMAIN m_queue = 1 .. Len(m_queue) /\ ToSet(m_queue) = {m_queue[n] : n \in 1 .. Len(m_queue)}
    BY QueueSet DEF MeshInv, MeshTypes
  <2>2. QED
    BY <2>1 DEF QueuedAt, QueuedOf
<1>4. ASSUME NEW b \in MeshBlocks
      PROVE  /\ kept[b] \in Cached /\ kept[b].refcount = m_cache[b].refcount
             /\ kept[b] = m_cache[b] \/ (kept[b].refcount = 0 /\ ~kept[b].in)
  <2>1. CASE b \in gone
    <3>1. m_cache[b].refcount = 0
      BY <2>1 DEF MayGo
    <3>2. kept[b] = NotCached
      BY <2>1 DEF cleanupCache
    <3>3. 0 \in 0 .. MaxChanges
      BY MeshAssumption
    <3>4. QED
      BY <3>1, <3>2, <3>3 DEF NotCached
  <2>2. CASE b \notin gone
    BY <1>2, <2>2 DEF cleanupCache
  <2>3. QED
    BY <2>1, <2>2
<1> HIDE DEF kept
<1>5. ASSUME NEW b \in MeshBlocks
      PROVE  /\ cached[b] \in Cached /\ cached[b].refcount = m_cache[b].refcount
             /\ b \in AroundOf[p] => cached[b].in
             /\ b = p => cached[b].data = cmap[b]
             /\ cached[b].in => cached[b].data = cmap[b]
                                \/ (m_cache[b].in /\ cached[b].data = m_cache[b].data)
             /\ b \notin AroundOf[p] => cached[b] = kept[b]
  <2>1. p \in AroundOf[p]
    BY MeshAssumption
  <2>2. CASE b \in AroundOf[p] /\ kept[b].in /\ b # p
    <3>1. cached[b] = kept[b]
      BY <2>2 DEF cacheBlock
    <3>2. QED
      BY <1>4, <2>2, <3>1
  <2>3. CASE b \in AroundOf[p] /\ ~(kept[b].in /\ b # p)
    <3>1. cached[b] = [in |-> TRUE, data |-> cmap[b], refcount |-> kept[b].refcount]
      BY <2>3 DEF cacheBlock
    <3>2. cmap[b] \in 0 .. MaxChanges /\ kept[b].refcount \in Nat
      BY <1>2, <1>4
    <3> HIDE DEF cached
    <3>3. /\ cached[b] \in Cached /\ cached[b].in /\ cached[b].data = cmap[b]
          /\ cached[b].refcount = kept[b].refcount
      BY <3>1, <3>2
    <3>4. QED
      BY <1>4, <2>3, <3>3
  <2>4. CASE b \notin AroundOf[p]
    <3>1. cached[b] = kept[b]
      BY <2>4
    <3>2. QED
      BY <1>4, <2>1, <2>4, <3>1
  <2>5. QED
    BY <2>2, <2>3, <2>4
<1>6. p \in AroundOf[p] /\ \A b \in MeshBlocks : m_cache[b].refcount > 0 => m_cache[b].in
  BY MeshAssumption DEF MeshInv, CopiesAreHeld
<1>7. CASE QueuedOf(p)
  <2>1. m_cache' = cached
    BY <1>1, <1>3, <1>7 DEF kept
  <2>2. DOMAIN cached = MeshBlocks /\ cached = [b \in MeshBlocks |-> cached[b]]
    OBVIOUS
  <2> HIDE DEF cached
  <2>3. m_cache' \in [MeshBlocks -> Cached]
    BY <1>5, <2>1, <2>2
  <2>4. \A b \in MeshBlocks : cached[b].refcount > 0 => cached[b].in
    BY <1>4, <1>5, <1>6
  <2>5. QED
    BY <1>5, <1>7, <2>1, <2>3, <2>4
<1>8. CASE ~QueuedOf(p)
  <2>1. m_cache' = [b \in MeshBlocks |->
                      IF b \in AroundOf[p] THEN [cached[b] EXCEPT !.refcount = @ + 1]
                      ELSE cached[b]]
    BY <1>1, <1>3, <1>8 DEF kept
  <2> HIDE DEF cached
  <2>2. ASSUME NEW b \in MeshBlocks, b \in AroundOf[p]
        PROVE  /\ m_cache'[b] \in Cached /\ m_cache'[b].refcount = cached[b].refcount + 1
               /\ m_cache'[b].in = cached[b].in /\ m_cache'[b].data = cached[b].data
    BY <1>5, <2>1, <2>2
  <2>3. ASSUME NEW b \in MeshBlocks, b \notin AroundOf[p]
        PROVE  m_cache'[b] = cached[b]
    BY <2>1, <2>3
  <2>4. m_cache' \in [MeshBlocks -> Cached]
    <3>1. \A b \in MeshBlocks : m_cache'[b] \in Cached
      BY <1>5, <2>2, <2>3
    <3>2. m_cache' = [b \in MeshBlocks |-> m_cache'[b]]
      BY <2>1
    <3>3. QED
      BY <3>1, <3>2
  <2>5. \A b \in MeshBlocks : m_cache'[b].refcount > 0 => m_cache'[b].in
    BY <1>4, <1>5, <1>6, <2>2, <2>3
  <2>6. QED
    BY <1>5, <1>6, <1>8, <2>2, <2>3, <2>4, <2>5
<1>9. QED
  BY <1>7, <1>8

(* One more, or one less, needs the copy of b.                             *)
LEMMA NeededBy ==
  ASSUME NEW b, NEW Q, NEW R, NEW p \in MeshBlocks, Q \subseteq MeshBlocks, p \notin Q,
         R = Q \union {p}
  PROVE  /\ Cardinality({q \in Q : b \in AroundOf[q]}) \in Nat
         /\ Cardinality({q \in R : b \in AroundOf[q]})
              = Cardinality({q \in Q : b \in AroundOf[q]}) + (IF b \in AroundOf[p] THEN 1 ELSE 0)
<1> DEFINE A == {q \in Q : b \in AroundOf[q]}
           B == {q \in R : b \in AroundOf[q]}
<1>1. IsFiniteSet(A) /\ p \notin A
  <2>1. IsFiniteSet(MeshBlocks) /\ A \subseteq MeshBlocks
    BY MeshAssumption
  <2>2. QED
    BY <2>1, FS_Subset
<1>2. B = IF b \in AroundOf[p] THEN A \union {p} ELSE A
  OBVIOUS
<1> HIDE DEF A, B
<1>3. Cardinality(A) \in Nat /\ Cardinality(A \union {p}) = Cardinality(A) + 1
  BY <1>1, FS_CardinalityType, FS_AddElement
<1>4. Cardinality(B) = Cardinality(A) + (IF b \in AroundOf[p] THEN 1 ELSE 0)
  BY <1>2, <1>3
<1>5. QED
  BY <1>3, <1>4 DEF A, B

(* The first task is done.                                                 *)
LEMMA TaskDone ==
  ASSUME MeshInv, tasks # <<>>, tasks' = Tail(tasks)
  PROVE  /\ Head(tasks) \in MeshTasks /\ tasks' \in Seq(MeshTasks)
         /\ ToSet(tasks) = ToSet(tasks') \union {Head(tasks)}
         /\ Head(tasks).op = "add" => Head(tasks).p \in MeshBlocks
         /\ \A t \in ToSet(tasks') : t.op = "add" => t.p \in MeshBlocks
<1>1. tasks \in Seq(MeshTasks) /\ \A t \in ToSet(tasks) : t.op = "add" => t.p \in MeshBlocks
  BY DEF MeshInv, MeshTypes
<1>2. /\ Head(tasks) \in MeshTasks /\ Tail(tasks) \in Seq(MeshTasks)
      /\ ToSet(tasks) = ToSet(Tail(tasks)) \union {Head(tasks)}
  BY <1>1, TakeFirst
<1>3. QED
  BY <1>1, <1>2

LEMMA AddTaskKeeps ==
  ASSUME MeshInv, AddTask
  PROVE  MeshInv'
<1> DEFINE t == Head(tasks)
<1>1. /\ t \in MeshTasks /\ tasks' \in Seq(MeshTasks) /\ ToSet(tasks) = ToSet(tasks') \union {t}
      /\ t.op = "add" /\ t.p \in MeshBlocks
      /\ \A u \in ToSet(tasks') : u.op = "add" => u.p \in MeshBlocks
      /\ addBlock(t.p, t.ack, t.urgent) /\ tasks # <<>>
  BY TaskDone DEF AddTask
<1>2. PICK p \in MeshBlocks, ack \in BOOLEAN, urgent \in BOOLEAN :
        p = t.p /\ ack = t.ack /\ urgent = t.urgent
  BY <1>1 DEF MeshTasks
<1>3. addBlock(p, ack, urgent)
  BY <1>1, <1>2
<1>4. /\ cmap' = cmap /\ cmesh' = cmesh /\ m_update_sem' = m_update_sem /\ meshw' = meshw
      /\ m_queue_out' = m_queue_out /\ replacing' = replacing /\ blocks_to_ack' = blocks_to_ack
      /\ meshStop' = meshStop /\ changes' = changes /\ unacked' = unacked
  BY DEF AddTask
<1>5. /\ m_queue' \in Seq(MeshQueued) /\ QueuedOnce'
      /\ \A q \in MeshBlocks : QueuedOf(q)' <=> QueuedOf(q) \/ q = p
      /\ \A e \in ToSet(m_queue) : \E d \in ToSet(m_queue') : d.p = e.p /\ (e.ack => d.ack)
      /\ \E d \in ToSet(m_queue') : d.p = p /\ (ack => d.ack)
  BY <1>3, QueueAdded
<1>6. /\ m_cache' \in [MeshBlocks -> [in : BOOLEAN, data : 0 .. MaxChanges, refcount : Nat]]
      /\ m_cache'[p].data = cmap[p]
      /\ \A b \in MeshBlocks :
           /\ m_cache'[b].refcount = IF ~QueuedOf(p) /\ b \in AroundOf[p]
                                     THEN m_cache[b].refcount + 1 ELSE m_cache[b].refcount
           /\ m_cache'[b].refcount > 0 => m_cache'[b].in
           /\ m_cache'[b].in =>
                m_cache'[b].data = cmap[b]
                \/ (m_cache[b].in /\ m_cache'[b].data = m_cache[b].data)
  BY <1>3, CopiesAdded
<1>7. m_urgents' = IF urgent THEN m_urgents \union {p} ELSE m_urgents
  BY <1>3 DEF addBlock
<1> HIDE DEF t
<1>8. MeshTypes'
  <2>1. m_urgents' \subseteq MeshBlocks
    BY <1>7 DEF MeshInv, MeshTypes
  <2>2. MeshTypes
    BY DEF MeshInv
  <2>3. QED
    BY <1>1, <1>4, <1>5, <1>6, <2>1, <2>2 DEF MeshTypes
<1>9. QueuedBlocks \subseteq MeshBlocks /\ QueuedBlocks' = QueuedBlocks \union {p}
  BY <1>5 DEF QueuedBlocks
<1>10. CopiesAreHeld'
  <2>1. ASSUME NEW b \in MeshBlocks
        PROVE  m_cache'[b].refcount = Cardinality({q \in QueuedBlocks' : b \in AroundOf[q]})
    <3>1. m_cache[b].refcount = Cardinality({q \in QueuedBlocks : b \in AroundOf[q]})
      BY DEF MeshInv, CopiesAreHeld
    <3>2. CASE QueuedOf(p)
      <4>1. QueuedBlocks' = QueuedBlocks
        BY <1>9, <3>2 DEF QueuedBlocks
      <4>2. QED
        BY <1>6, <3>1, <3>2, <4>1
    <3>3. CASE ~QueuedOf(p)
      <4>1. p \notin QueuedBlocks
        BY <3>3 DEF QueuedBlocks
      <4>2. PICK Q, R : Q = QueuedBlocks /\ R = QueuedBlocks'
        OBVIOUS
      <4>3. /\ Cardinality({q \in Q : b \in AroundOf[q]}) \in Nat
            /\ Cardinality({q \in R : b \in AroundOf[q]})
                 = Cardinality({q \in Q : b \in AroundOf[q]})
                   + (IF b \in AroundOf[p] THEN 1 ELSE 0)
        BY <1>9, <4>1, <4>2, NeededBy
      <4>4. QED
        BY <1>6, <3>1, <3>3, <4>2, <4>3
    <3>4. QED
      BY <3>2, <3>3
  <2>2. \A q \in m_urgents' : QueuedOf(q)'
    BY <1>5, <1>7 DEF MeshInv, MeshTypes, CopiesAreHeld
  <2>3. QED
    BY <1>6, <2>1, <2>2 DEF CopiesAreHeld
<1>11. CopiesAreFresh'
  <2> SUFFICES ASSUME NEW b \in MeshBlocks, m_cache'[b].in, cmap[b] # 0,
                      m_cache'[b].data # cmap[b]
               PROVE  FALSE
    BY <1>4 DEF CopiesAreFresh
  <2>1. m_cache[b].in /\ m_cache[b].data # cmap[b] /\ b # p
    BY <1>6
  <2>2. TaskIsNext(b)
    BY <2>1 DEF MeshInv, CopiesAreFresh
  <2>3. QED
    BY <1>2, <2>1, <2>2 DEF TaskIsNext, t
<1>12. NewestShows'
  <2> SUFFICES ASSUME NEW q \in MeshBlocks, cmap'[q] # 0, ~Waits(q)' PROVE NewestIs(q)'
    BY DEF NewestShows
  <2>1. q # p /\ ~QueuedOf(q)
    BY <1>5 DEF Waits
  <2>2. ~TaskOf(q)
    BY <1>1, <1>2, <2>1 DEF Waits, TaskOf
  <2>3. NewestIs(q)
    BY <1>4, <2>1, <2>2 DEF MeshInv, NewestShows, Waits
  <2>4. QED
    BY <1>4, <2>3, NewestSame
<1>13. AcksAreDue'
  <2> SUFFICES ASSUME NEW q \in unacked PROVE AckDue(q)'
    BY <1>4 DEF AcksAreDue
  <2>1. AckDue(q)
    BY DEF MeshInv, AcksAreDue
  <2>2. CASE \E u \in ToSet(tasks) : u.op = "add" /\ u.p = q /\ u.ack
    <3>1. PICK u \in ToSet(tasks) : u.op = "add" /\ u.p = q /\ u.ack
      BY <2>2
    <3>2. CASE u = t
      BY <1>2, <1>5, <3>1, <3>2 DEF AckDue
    <3>3. CASE u \in ToSet(tasks')
      BY <3>1, <3>3 DEF AckDue
    <3>4. QED
      BY <1>1, <3>2, <3>3
  <2>3. CASE \E e \in ToSet(m_queue) : e.p = q /\ e.ack
    BY <1>5, <2>3 DEF AckDue
  <2>4. QED
    BY <1>4, <2>1, <2>2, <2>3 DEF AckDue, Making
<1>14. QED
  BY <1>5, <1>8, <1>10, <1>11, <1>12, <1>13 DEF MeshInv

LEMMA MeshQueueSame ==
  ASSUME MeshInv, UNCHANGED meshQueueVars
  PROVE  /\ m_queue' = m_queue /\ m_cache' = m_cache /\ m_urgents' = m_urgents
         /\ QueuedOnce' /\ CopiesAreHeld' /\ \A q : QueuedOf(q)' <=> QueuedOf(q)
<1>1. m_queue' = m_queue /\ m_cache' = m_cache /\ m_urgents' = m_urgents
  BY DEF meshQueueVars
<1>2. QueuedBlocks' = QueuedBlocks /\ \A q : QueuedOf(q)' <=> QueuedOf(q)
  BY <1>1 DEF QueuedBlocks, QueuedOf
<1>3. QueuedOnce' /\ CopiesAreHeld'
  BY <1>1, <1>2 DEF MeshInv, QueuedOnce, CopiesAreHeld
<1>4. QED
  BY <1>1, <1>2, <1>3

LEMMA PostKeeps ==
  ASSUME MeshInv, deferUpdate
  PROVE  MeshInv'
<1>1. /\ tasks # <<>> /\ Head(tasks).op = "post"
      /\ cmap' = cmap /\ cmesh' = cmesh /\ m_update_sem' = m_update_sem + 1 /\ meshw' = meshw
      /\ m_queue_out' = m_queue_out /\ replacing' = replacing /\ blocks_to_ack' = blocks_to_ack
      /\ meshStop' = meshStop /\ changes' = changes /\ unacked' = unacked
      /\ tasks' = Tail(tasks)
  BY DEF deferUpdate
<1>2. /\ m_queue' = m_queue /\ m_cache' = m_cache /\ m_urgents' = m_urgents
      /\ QueuedOnce' /\ CopiesAreHeld' /\ \A q : QueuedOf(q)' <=> QueuedOf(q)
  BY MeshQueueSame DEF deferUpdate
<1>3. /\ tasks' \in Seq(MeshTasks) /\ ToSet(tasks) = ToSet(tasks') \union {Head(tasks)}
      /\ \A u \in ToSet(tasks') : u.op = "add" => u.p \in MeshBlocks
  BY <1>1, TaskDone
<1>4. MeshTypes'
  <2>1. MeshTypes
    BY DEF MeshInv
  <2>2. QED
    BY <1>1, <1>2, <1>3, <2>1 DEF MeshTypes
<1>5. \A q : TaskOf(q)' <=> TaskOf(q)
  BY <1>1, <1>3 DEF TaskOf
<1>6. CopiesAreFresh'
  BY <1>1, <1>2 DEF MeshInv, CopiesAreFresh, TaskIsNext
<1>7. NewestShows'
  <2> SUFFICES ASSUME NEW q \in MeshBlocks, cmap'[q] # 0, ~Waits(q)' PROVE NewestIs(q)'
    BY DEF NewestShows
  <2>1. NewestIs(q)
    BY <1>1, <1>2, <1>5 DEF MeshInv, NewestShows, Waits
  <2>2. QED
    BY <1>1, <2>1, NewestSame
<1>8. AcksAreDue'
  <2> SUFFICES ASSUME NEW q \in unacked PROVE AckDue(q)'
    BY <1>1 DEF AcksAreDue
  <2>1. AckDue(q)
    BY DEF MeshInv, AcksAreDue
  <2>2. QED
    BY <1>1, <1>2, <1>3, <2>1 DEF AckDue, Making
<1>9. QED
  BY <1>2, <1>4, <1>6, <1>7, <1>8 DEF MeshInv

LEMMA UnloadKeeps ==
  ASSUME MeshInv, NEW p \in MeshBlocks, UnloadMeshBlock(p)
  PROVE  MeshInv'
<1>1. /\ cmap' = [cmap EXCEPT ![p] = 0] /\ cmesh' = [cmesh EXCEPT ![p] = NoMesh]
      /\ m_update_sem' = m_update_sem /\ meshw' = meshw
      /\ m_queue_out' = m_queue_out /\ replacing' = replacing /\ blocks_to_ack' = blocks_to_ack
      /\ meshStop' = meshStop /\ changes' = changes /\ unacked' = unacked
      /\ tasks' = tasks /\ tasks = <<>>
  BY DEF UnloadMeshBlock, MainIsFree
<1>2. /\ m_queue' = m_queue /\ m_cache' = m_cache /\ m_urgents' = m_urgents
      /\ QueuedOnce' /\ CopiesAreHeld' /\ \A q : QueuedOf(q)' <=> QueuedOf(q)
  BY MeshQueueSame DEF UnloadMeshBlock
<1>3. /\ cmap' \in [MeshBlocks -> 0 .. MaxChanges] /\ cmap'[p] = 0
      /\ \A q \in MeshBlocks \ {p} : cmap'[q] = cmap[q] /\ cmesh'[q] = cmesh[q]
  <2>1. 0 \in 0 .. MaxChanges
    BY MeshAssumption
  <2>2. QED
    BY <1>1, <2>1 DEF MeshInv, MeshTypes
<1>4. cmesh' \in [MeshBlocks -> MadeMeshes]
  <2>1. NoMesh \in MadeMeshes
    BY DEF NoMesh, MadeMeshes
  <2>2. QED
    BY <1>1, <2>1 DEF MeshInv, MeshTypes
<1>5. MeshTypes'
  <2>1. MeshTypes
    BY DEF MeshInv
  <2>2. QED
    BY <1>1, <1>2, <1>3, <1>4, <2>1 DEF MeshTypes
<1>6. CopiesAreFresh'
  <2> SUFFICES ASSUME NEW b \in MeshBlocks, m_cache[b].in, cmap'[b] # 0,
                      m_cache[b].data # cmap'[b]
               PROVE  FALSE
    BY <1>2 DEF CopiesAreFresh
  <2>1. cmap'[b] = cmap[b]
    BY <1>3
  <2>2. TaskIsNext(b)
    BY <2>1 DEF MeshInv, CopiesAreFresh
  <2>3. QED
    BY <1>1, <2>2 DEF TaskIsNext
<1>7. NewestShows'
  <2> SUFFICES ASSUME NEW q \in MeshBlocks, cmap'[q] # 0, ~Waits(q)' PROVE NewestIs(q)'
    BY DEF NewestShows
  <2>1. q # p /\ cmap[q] # 0 /\ cmesh'[q] = cmesh[q]
    BY <1>3
  <2>2. NewestIs(q)
    BY <1>1, <1>2, <2>1 DEF MeshInv, NewestShows, Waits, TaskOf
  <2>3. \A b \in FacesOf[q] \union {q} : cmap'[b] = cmap[b] \/ cmap'[b] = 0
    BY <1>3, MeshAssumption
  <2>4. QED
    BY <1>1, <2>1, <2>2, <2>3, NewestSame
<1>8. AcksAreDue'
  BY <1>1, <1>2 DEF MeshInv, AcksAreDue, AckDue, Making
<1>9. QED
  BY <1>2, <1>5, <1>6, <1>7, <1>8 DEF MeshInv

(* The main thread stops the other one, or begins to replace meshes.       *)
LEMMA QuietKeeps ==
  ASSUME MeshInv, stopMesh \/ BeginReplacing
  PROVE  MeshInv'
<1>1. /\ cmap' = cmap /\ cmesh' = cmesh /\ m_update_sem' = m_update_sem /\ meshw' = meshw
      /\ m_queue_out' = m_queue_out /\ replacing' \in BOOLEAN /\ blocks_to_ack' = blocks_to_ack
      /\ meshStop' \in BOOLEAN /\ changes' = changes /\ unacked' = unacked
      /\ tasks = <<>>
  BY DEF stopMesh, BeginReplacing, MainIsFree, MeshInv, MeshTypes
<1>2. /\ m_queue' = m_queue /\ m_cache' = m_cache /\ m_urgents' = m_urgents
      /\ QueuedOnce' /\ CopiesAreHeld' /\ \A q : QueuedOf(q)' <=> QueuedOf(q)
  BY MeshQueueSame DEF stopMesh, BeginReplacing
<1>3. tasks' \in Seq(MeshTasks) /\ \A u \in ToSet(tasks') : u.op = "post"
  <2>1. CASE tasks' = tasks
    BY <1>1, <2>1, EmptyQueue DEF MeshInv, MeshTypes
  <2>2. CASE stopMesh
    <3> DEFINE u == Task("post", NoMeshBlock, FALSE, FALSE)
    <3>1. u \in MeshTasks /\ u.op = "post" /\ tasks' = <<u>>
      BY <2>2 DEF stopMesh, Task, MeshTasks
    <3> HIDE DEF u
    <3>2. <<u>> = Append(<<>>, u) /\ <<>> \in Seq(MeshTasks)
      OBVIOUS
    <3>3. PICK none \in Seq(MeshTasks) : none = <<>>
      BY <3>2
    <3>4. Append(none, u) \in Seq(MeshTasks) /\ ToSet(Append(none, u)) = ToSet(none) \union {u}
      BY <3>1, PutLast
    <3>5. ToSet(none) = {} /\ tasks' = Append(none, u)
      BY <3>1, <3>2, <3>3, EmptyQueue
    <3>6. QED
      BY <3>1, <3>4, <3>5
  <2>3. QED
    BY <2>1, <2>2 DEF BeginReplacing
<1>4. ToSet(tasks) = {}
  BY <1>1, EmptyQueue
<1>5. MeshTypes'
  <2>1. MeshTypes
    BY DEF MeshInv
  <2>2. QED
    BY <1>1, <1>2, <1>3, <2>1 DEF MeshTypes
<1>6. CopiesAreFresh'
  BY <1>1, <1>2 DEF MeshInv, CopiesAreFresh, TaskIsNext
<1>7. NewestShows'
  <2> SUFFICES ASSUME NEW q \in MeshBlocks, cmap'[q] # 0, ~Waits(q)' PROVE NewestIs(q)'
    BY DEF NewestShows
  <2>1. NewestIs(q)
    BY <1>1, <1>2, <1>4 DEF MeshInv, NewestShows, Waits, TaskOf
  <2>2. QED
    BY <1>1, <2>1, NewestSame
<1>8. AcksAreDue'
  BY <1>1, <1>2, <1>4 DEF MeshInv, AcksAreDue, AckDue, Making
<1>9. QED
  BY <1>2, <1>5, <1>6, <1>7, <1>8 DEF MeshInv

(* A mesh is put in place: it was the newest of its block, or a newer one  *)
(* is behind it.                                                           *)
LEMMA ReplaceKeeps ==
  ASSUME MeshInv, ReplaceMesh
  PROVE  MeshInv'
<1> DEFINE r == Head(m_queue_out)
           full == Len(blocks_to_ack) = MAX_GOT_BLOCKS
           l == Len(m_queue_out)
<1>1. /\ m_queue_out # <<>> /\ m_queue_out' = Tail(m_queue_out)
      /\ cmap' = cmap /\ m_update_sem' = m_update_sem /\ meshw' = meshw /\ tasks' = tasks
      /\ replacing' = replacing /\ meshStop' = meshStop /\ changes' = changes
      /\ cmesh' = IF cmap[r.p] = 0 THEN cmesh ELSE [cmesh EXCEPT ![r.p] = r.of]
      /\ IF ~r.ack THEN blocks_to_ack' = blocks_to_ack /\ unacked' = unacked
         ELSE /\ blocks_to_ack' = Append(IF full THEN <<>> ELSE blocks_to_ack, r.p)
              /\ unacked' = IF full THEN unacked \ ToSet(blocks_to_ack) ELSE unacked
  BY DEF ReplaceMesh
<1>2. /\ m_queue' = m_queue /\ m_cache' = m_cache /\ m_urgents' = m_urgents
      /\ QueuedOnce' /\ CopiesAreHeld' /\ \A q : QueuedOf(q)' <=> QueuedOf(q)
  BY MeshQueueSame DEF ReplaceMesh
<1>3. /\ m_queue_out \in Seq(MeshResults) /\ blocks_to_ack \in Seq(MeshBlocks)
      /\ cmesh \in [MeshBlocks -> MadeMeshes] /\ unacked \subseteq MeshBlocks
      /\ Len(blocks_to_ack) <= MAX_GOT_BLOCKS
  BY DEF MeshInv, MeshTypes
<1>4. /\ r \in MeshResults /\ m_queue_out' \in Seq(MeshResults)
      /\ ToSet(m_queue_out) = ToSet(m_queue_out') \union {r}
  BY <1>1, <1>3, TakeFirst
<1>5. /\ l \in Nat /\ 1 \in 1 .. l /\ m_queue_out[1] = r /\ Len(m_queue_out') = l - 1
      /\ \A n \in 1 .. l - 1 : m_queue_out'[n] = m_queue_out[n + 1]
  BY <1>1, <1>3
<1>6. r.p \in MeshBlocks /\ r.of \in MadeMeshes /\ r.ack \in BOOLEAN
  BY <1>4 DEF MeshResults
<1> HIDE DEF r, l
<1>7. cmesh' \in [MeshBlocks -> MadeMeshes]
  BY <1>1, <1>3, <1>6
<1>8. /\ blocks_to_ack' \in Seq(MeshBlocks) /\ Len(blocks_to_ack') <= MAX_GOT_BLOCKS
      /\ unacked' \subseteq unacked
      /\ r.ack => r.p \in ToSet(blocks_to_ack')
      /\ \A q \in unacked' : q \in ToSet(blocks_to_ack) => q \in ToSet(blocks_to_ack')
  <2>1. CASE ~r.ack
    BY <1>1, <1>3, <2>1
  <2>2. CASE r.ack
    <3>1. PICK s \in Seq(MeshBlocks) : s = IF full THEN <<>> ELSE blocks_to_ack
      <4>1. <<>> \in Seq(MeshBlocks)
        OBVIOUS
      <4> HIDE DEF full
      <4>2. QED
        BY <1>3, <4>1
    <3>2. /\ Append(s, r.p) \in Seq(MeshBlocks) /\ Len(Append(s, r.p)) = Len(s) + 1
          /\ ToSet(Append(s, r.p)) = ToSet(s) \union {r.p}
      BY <1>6, PutLast
    <3>3. Len(s) < MAX_GOT_BLOCKS
      BY <1>3, <3>1, MeshAssumption
    <3>4. blocks_to_ack' = Append(s, r.p)
      BY <1>1, <2>2, <3>1
    <3>5. Len(s) + 1 <= MAX_GOT_BLOCKS
      BY <3>3, MeshAssumption
    <3>6. \A q \in unacked' : q \in ToSet(blocks_to_ack) => q \in ToSet(s)
      BY <1>1, <2>2, <3>1
    <3>7. unacked' \subseteq unacked
      BY <1>1, <2>2
    <3>8. QED
      BY <3>2, <3>4, <3>5, <3>6, <3>7
  <2>3. QED
    BY <1>6, <2>1, <2>2
<1>9. MeshTypes'
  <2>1. MeshTypes
    BY DEF MeshInv
  <2>2. unacked' \subseteq MeshBlocks
    BY <1>3, <1>8
  <2>3. QED
    BY <1>1, <1>2, <1>4, <1>7, <1>8, <2>1, <2>2 DEF MeshTypes
<1>10. \A q : TaskOf(q)' <=> TaskOf(q)
  BY <1>1 DEF TaskOf
<1>11. CopiesAreFresh'
  BY <1>1, <1>2, <1>10 DEF MeshInv, CopiesAreFresh, TaskIsNext
<1>12. NewestShows'
  <2> SUFFICES ASSUME NEW q \in MeshBlocks, cmap'[q] # 0, ~Waits(q)' PROVE NewestIs(q)'
    BY DEF NewestShows
  <2>1. NewestIs(q)
    BY <1>1, <1>2, <1>10 DEF MeshInv, NewestShows, Waits
  <2>2. \A of : Shows(of, q)' <=> Shows(of, q)
    BY <1>1 DEF Shows
  <2>3. Making(q)' <=> Making(q)
    BY <1>1 DEF Making
  <2>4. Making(q) => Shows(meshw.of, q)'
    BY <1>1, <2>1 DEF NewestIs, Shows
  <2>5. ASSUME ~Making(q), NEW n \in 1 .. l - 1, NewestOf(q, n)'
        PROVE  Shows(m_queue_out[n].of, q)'
    <3>1. n + 1 \in 1 .. l /\ m_queue_out[n + 1].p = q
      BY <1>5, <2>5 DEF NewestOf
    <3>2. ASSUME NEW k \in 1 .. l, k > n + 1 PROVE m_queue_out[k].p # q
      <4>1. k - 1 \in 1 .. l - 1 /\ k - 1 > n /\ (k - 1) + 1 = k
        BY <1>5, <3>2
      <4>2. QED
        BY <1>5, <2>5, <4>1 DEF NewestOf
    <3>3. NewestOf(q, n + 1)
      BY <3>1, <3>2 DEF NewestOf, l
    <3>4. Shows(m_queue_out[n + 1].of, q)
      BY <2>1, <2>5, <3>1, <3>3 DEF NewestIs, l
    <3>5. m_queue_out'[n] = m_queue_out[n + 1]
      BY <1>5
    <3>6. QED
      BY <1>1, <3>4, <3>5 DEF Shows
  <2>6. ASSUME ~Making(q), ~MadeOf(q)' PROVE Shows(cmesh[q], q)'
    <3>1. \A k \in 1 .. l : k > 1 => m_queue_out[k].p # q
      <4> SUFFICES ASSUME NEW k \in 1 .. l, k > 1 PROVE m_queue_out[k].p # q
        OBVIOUS
      <4>1. k - 1 \in 1 .. l - 1 /\ (k - 1) + 1 = k
        BY <1>5
      <4>2. QED
        BY <1>5, <2>6, <4>1 DEF MadeOf
    <3>2. CASE r.p = q
      <4>1. NewestOf(q, 1)
        BY <1>5, <3>1, <3>2 DEF NewestOf, l
      <4>2. Shows(r.of, q)
        BY <1>5, <2>1, <2>6, <4>1 DEF NewestIs, l
      <4>3. cmesh'[q] = r.of
        BY <1>1, <1>3, <3>2
      <4>4. QED
        BY <1>1, <4>2, <4>3 DEF Shows
    <3>3. CASE r.p # q
      <4>1. \A k \in 1 .. l : m_queue_out[k].p # q
        <5> SUFFICES ASSUME NEW k \in 1 .. l PROVE m_queue_out[k].p # q
          OBVIOUS
        <5>1. k = 1 \/ k > 1
          BY <1>5
        <5>2. QED
          BY <1>5, <3>1, <3>3, <5>1
      <4>2. ~MadeOf(q)
        BY <4>1 DEF MadeOf, l
      <4>3. Shows(cmesh[q], q)
        BY <2>1, <2>6, <4>2 DEF NewestIs
      <4>4. cmesh'[q] = cmesh[q]
        BY <1>1, <1>3, <3>3
      <4>5. QED
        BY <1>1, <4>3, <4>4 DEF Shows
    <3>4. QED
      BY <3>2, <3>3
  <2>7. QED
    BY <1>1, <1>5, <2>3, <2>4, <2>5, <2>6 DEF NewestIs
<1>13. AcksAreDue'
  <2> SUFFICES ASSUME NEW q \in unacked' PROVE AckDue(q)'
    BY DEF AcksAreDue
  <2>1. AckDue(q)
    BY <1>8 DEF MeshInv, AcksAreDue
  <2>2. CASE \E m \in ToSet(m_queue_out) : m.p = q /\ m.ack
    BY <1>4, <1>8, <2>2 DEF AckDue
  <2>3. CASE q \in ToSet(blocks_to_ack)
    BY <1>8, <2>3 DEF AckDue
  <2>4. QED
    BY <1>1, <1>2, <2>1, <2>2, <2>3 DEF AckDue, Making
<1>14. QED
  BY <1>2, <1>9, <1>11, <1>12, <1>13 DEF MeshInv

LEMMA EndReplacingKeeps ==
  ASSUME MeshInv, EndReplacing
  PROVE  MeshInv'
<1>1. /\ cmap' = cmap /\ cmesh' = cmesh /\ m_update_sem' = m_update_sem /\ meshw' = meshw
      /\ m_queue_out' = m_queue_out /\ replacing' = FALSE /\ blocks_to_ack' = <<>>
      /\ meshStop' = meshStop /\ changes' = changes /\ tasks' = tasks
      /\ unacked' = unacked \ ToSet(blocks_to_ack)
  BY DEF EndReplacing
<1>2. /\ m_queue' = m_queue /\ m_cache' = m_cache /\ m_urgents' = m_urgents
      /\ QueuedOnce' /\ CopiesAreHeld' /\ \A q : QueuedOf(q)' <=> QueuedOf(q)
  BY MeshQueueSame DEF EndReplacing
<1>3. MeshTypes'
  <2>1. MeshTypes
    BY DEF MeshInv
  <2>2. unacked' \subseteq MeshBlocks /\ blocks_to_ack' \in Seq(MeshBlocks) /\ Len(blocks_to_ack') = 0
    BY <1>1, <2>1 DEF MeshTypes
  <2>3. 0 <= MAX_GOT_BLOCKS
    BY MeshAssumption
  <2>4. QED
    BY <1>1, <1>2, <2>1, <2>2, <2>3 DEF MeshTypes
<1>4. \A q : TaskOf(q)' <=> TaskOf(q)
  BY <1>1 DEF TaskOf
<1>5. CopiesAreFresh'
  BY <1>1, <1>2, <1>4 DEF MeshInv, CopiesAreFresh, TaskIsNext
<1>6. NewestShows'
  <2> SUFFICES ASSUME NEW q \in MeshBlocks, cmap'[q] # 0, ~Waits(q)' PROVE NewestIs(q)'
    BY DEF NewestShows
  <2>1. NewestIs(q)
    BY <1>1, <1>2, <1>4 DEF MeshInv, NewestShows, Waits
  <2>2. QED
    BY <1>1, <2>1, NewestSame
<1>7. AcksAreDue'
  BY <1>1, <1>2 DEF MeshInv, AcksAreDue, AckDue, Making
<1>8. QED
  BY <1>2, <1>3, <1>5, <1>6, <1>7 DEF MeshInv

LEMMA LeastIsThere ==
  ASSUME NEW B, B \subseteq Nat, B # {}
  PROVE  LET n == CHOOSE k \in B : \A j \in B : k <= j
         IN  n \in B /\ \A j \in B : n <= j
<1>1. PICK x \in B : \A y \in B : ~(<<y, x>> \in OpToRel(<, Nat))
  BY NatLessThanWellFounded, WFMin, Zenon
<1>2. \A y \in B : ~(y < x)
  BY <1>1 DEF OpToRel
<1>3. \A y \in B : x <= y
  BY <1>2
<1>4. QED
  BY <1>3, Zenon

(* The thread takes a block: what it will make the mesh of shows the block *)
(* as it is, unless a task for it is still to come.                        *)
LEMMA PopKeeps ==
  ASSUME MeshInv, PopMesh, UNCHANGED mainVars
  PROVE  MeshInv'
<1>1. /\ m_queue \in Seq(MeshQueued) /\ QueuedOnce
      /\ m_cache \in [MeshBlocks -> [in : BOOLEAN, data : 0 .. MaxChanges, refcount : Nat]]
  BY DEF MeshInv, MeshTypes
<1>2. PICK l \in Nat : l = Len(m_queue)
  BY <1>1
<1>3. /\ DOMAIN m_queue = 1 .. l /\ \A k \in 1 .. l : m_queue[k] \in MeshQueued
      /\ ToSet(m_queue) = {m_queue[k] : k \in 1 .. l}
  BY <1>1, <1>2, QueueSet
<1>4. PICK n \in 1 .. l : n = CHOOSE k \in Poppable : \A j \in Poppable : k <= j
  <2>1. Poppable \subseteq 1 .. l /\ Poppable # {} /\ 1 .. l \subseteq Nat
    BY <1>3 DEF Poppable, PopMesh
  <2>2. (CHOOSE k \in Poppable : \A j \in Poppable : k <= j) \in Poppable
    BY <2>1, LeastIsThere
  <2>3. QED
    BY <2>1, <2>2
<1>5. PICK e \in MeshQueued : e = m_queue[n]
  BY <1>3
<1>6. PICK p \in MeshBlocks : p = e.p
  BY DEF MeshQueued
<1>7. /\ m_queue' = RemoveAt(m_queue, n) /\ m_urgents' = m_urgents \ {p}
      /\ meshw' = [pc |-> "making", p |-> p, ack |-> e.ack, of |-> fillDataFromMapBlockCache(p)]
      /\ m_cache' = [b \in MeshBlocks |-> IF b \in AroundOf[p]
                                          THEN [m_cache[b] EXCEPT !.refcount = @ - 1]
                                          ELSE m_cache[b]]
      /\ m_update_sem' = m_update_sem /\ m_queue_out' = m_queue_out /\ meshw.pc = "pop"
  BY <1>4, <1>5, <1>6 DEF PopMesh, MeshAt
<1>8. /\ cmap' = cmap /\ cmesh' = cmesh /\ tasks' = tasks /\ replacing' = replacing
      /\ blocks_to_ack' = blocks_to_ack /\ meshStop' = meshStop /\ changes' = changes
      /\ unacked' = unacked
  BY DEF mainVars
<1>9. /\ m_queue' \in Seq(MeshQueued) /\ Len(m_queue') = l - 1
      /\ \A k \in 1 .. l - 1 : m_queue'[k] = m_queue[IF k < n THEN k ELSE k + 1]
      /\ ToSet(m_queue') = {m_queue[k] : k \in 1 .. l \ {n}}
  <2>1. n \in 1 .. Len(m_queue)
    BY <1>2
  <2>2. /\ RemoveAt(m_queue, n) \in Seq(MeshQueued)
        /\ Len(RemoveAt(m_queue, n)) = Len(m_queue) - 1
        /\ \A k \in 1 .. Len(m_queue) - 1 :
             RemoveAt(m_queue, n)[k] = m_queue[IF k < n THEN k ELSE k + 1]
        /\ ToSet(RemoveAt(m_queue, n)) = {m_queue[k] : k \in 1 .. Len(m_queue) \ {n}}
    BY <1>1, <2>1, OnePlaceOut
  <2>3. QED
    BY <1>2, <1>7, <2>2
<1>10. \A j, k \in 1 .. l : m_queue[j].p = m_queue[k].p => j = k
  BY <1>1, <1>2 DEF QueuedOnce
<1>11. QueuedOnce'
  <2> SUFFICES ASSUME NEW j \in 1 .. l - 1, NEW k \in 1 .. l - 1, m_queue'[j].p = m_queue'[k].p
               PROVE  j = k
    BY <1>9 DEF QueuedOnce
  <2>1. PICK x \in 1 .. l : x = IF j < n THEN j ELSE j + 1
    BY <1>2
  <2>2. PICK y \in 1 .. l : y = IF k < n THEN k ELSE k + 1
    BY <1>2
  <2>3. m_queue'[j] = m_queue[x] /\ m_queue'[k] = m_queue[y]
    BY <1>9, <2>1, <2>2
  <2>4. x = y
    BY <1>10, <2>3
  <2>5. QED
    BY <2>1, <2>2, <2>4
<1>12. \A x \in MeshBlocks : QueuedOf(x)' <=> QueuedOf(x) /\ x # p
  BY <1>3, <1>5, <1>6, <1>9, <1>10 DEF QueuedOf
<1>13. QueuedOf(p)
  BY <1>3, <1>5, <1>6 DEF QueuedOf
<1>14. /\ QueuedBlocks' \subseteq MeshBlocks /\ p \notin QueuedBlocks'
       /\ QueuedBlocks = QueuedBlocks' \union {p}
  BY <1>12, <1>13 DEF QueuedBlocks
<1>15. ASSUME NEW b \in MeshBlocks
       PROVE  LET needed == Cardinality({q \in QueuedBlocks' : b \in AroundOf[q]})
              IN  /\ needed \in Nat
                  /\ m_cache[b].refcount = needed + (IF b \in AroundOf[p] THEN 1 ELSE 0)
  <2>1. PICK Q, R : Q = QueuedBlocks' /\ R = QueuedBlocks
    OBVIOUS
  <2>2. /\ Cardinality({q \in Q : b \in AroundOf[q]}) \in Nat
        /\ Cardinality({q \in R : b \in AroundOf[q]})
             = Cardinality({q \in Q : b \in AroundOf[q]}) + (IF b \in AroundOf[p] THEN 1 ELSE 0)
    BY <1>14, <2>1, NeededBy
  <2>3. m_cache[b].refcount = Cardinality({q \in R : b \in AroundOf[q]})
    BY <2>1 DEF MeshInv, CopiesAreHeld
  <2>4. QED
    BY <2>1, <2>2, <2>3
<1>16. ASSUME NEW b \in MeshBlocks
       PROVE  /\ m_cache'[b] \in [in : BOOLEAN, data : 0 .. MaxChanges, refcount : Nat]
              /\ m_cache'[b].in = m_cache[b].in /\ m_cache'[b].data = m_cache[b].data
              /\ m_cache'[b].refcount = Cardinality({q \in QueuedBlocks' : b \in AroundOf[q]})
              /\ m_cache[b].refcount >= m_cache'[b].refcount
  <2>1. PICK c \in Nat : /\ c = Cardinality({q \in QueuedBlocks' : b \in AroundOf[q]})
                         /\ m_cache[b].refcount = c + (IF b \in AroundOf[p] THEN 1 ELSE 0)
    BY <1>15
  <2>2. CASE b \in AroundOf[p]
    <3>1. m_cache'[b] = [m_cache[b] EXCEPT !.refcount = @ - 1] /\ m_cache[b].refcount = c + 1
      BY <1>7, <2>1, <2>2
    <3>2. (c + 1) - 1 = c /\ c + 1 >= c
      OBVIOUS
    <3>3. /\ m_cache'[b] \in [in : BOOLEAN, data : 0 .. MaxChanges, refcount : Nat]
          /\ m_cache'[b].in = m_cache[b].in /\ m_cache'[b].data = m_cache[b].data
          /\ m_cache'[b].refcount = c
      BY <1>1, <3>1, <3>2
    <3>4. QED
      BY <2>1, <3>1, <3>2, <3>3
  <2>3. CASE b \notin AroundOf[p]
    <3>1. m_cache'[b] = m_cache[b] /\ m_cache[b].refcount = c
      BY <1>7, <2>1, <2>3
    <3>2. QED
      BY <1>1, <2>1, <3>1
  <2>4. QED
    BY <2>2, <2>3
<1>17. m_cache' \in [MeshBlocks -> [in : BOOLEAN, data : 0 .. MaxChanges, refcount : Nat]]
  <2>1. m_cache' = [b \in MeshBlocks |-> m_cache'[b]]
    BY <1>7
  <2>2. QED
    BY <1>16, <2>1
<1>18. CopiesAreHeld'
  <2>1. \A b \in MeshBlocks : m_cache'[b].refcount > 0 => m_cache'[b].in
    <3> SUFFICES ASSUME NEW b \in MeshBlocks, m_cache'[b].refcount > 0 PROVE m_cache'[b].in
      OBVIOUS
    <3>1. m_cache[b].refcount \in Nat /\ m_cache'[b].refcount \in Nat
      BY <1>1, <1>17
    <3>2. m_cache[b].refcount > 0
      <4>1. m_cache[b].refcount >= m_cache'[b].refcount
        BY <1>16
      <4>2. QED
        BY <3>1, <4>1
    <3>3. QED
      BY <1>16, <3>2 DEF MeshInv, CopiesAreHeld
  <2>2. \A x \in m_urgents' : QueuedOf(x)'
    BY <1>7, <1>12 DEF MeshInv, MeshTypes, CopiesAreHeld
  <2>3. QED
    BY <1>16, <2>1, <2>2 DEF CopiesAreHeld
<1>19. PICK of \in MadeMeshes : /\ of = fillDataFromMapBlockCache(p)
                                /\ \A b \in AroundOf[p] : of[b] = m_cache[b].data
  <2>1. AroundOf[p] \subseteq MeshBlocks
    BY MeshAssumption
  <2>2. \A b \in MeshBlocks : m_cache[b].data \in Nat
    BY <1>1
  <2> DEFINE of == fillDataFromMapBlockCache(p)
  <2>3. of = [b \in MeshBlocks |-> IF b \in AroundOf[p] THEN m_cache[b].data ELSE 0]
    BY DEF fillDataFromMapBlockCache
  <2> HIDE DEF of
  <2>4. of \in MadeMeshes
    BY <2>2, <2>3 DEF MadeMeshes
  <2>5. \A b \in AroundOf[p] : of[b] = m_cache[b].data
    BY <2>1, <2>3
  <2>6. QED
    BY <2>4, <2>5 DEF of
<1>20. meshw'.pc = "making" /\ meshw'.p = p /\ meshw'.ack = e.ack /\ meshw'.of = of
  BY <1>7, <1>19
<1>21. MeshTypes'
  <2>1. meshw' \in [pc : {"wait", "drain", "woken", "pop", "making", "ended"},
                    p : MeshBlocks \union {NoMeshBlock}, ack : BOOLEAN, of : MadeMeshes]
    BY <1>7, <1>19 DEF MeshQueued
  <2>2. m_urgents' \subseteq MeshBlocks
    BY <1>7 DEF MeshInv, MeshTypes
  <2>3. MeshTypes
    BY DEF MeshInv
  <2>4. QED
    BY <1>7, <1>8, <1>9, <1>17, <1>20, <2>1, <2>2, <2>3 DEF MeshTypes
<1>22. \A x : TaskOf(x)' <=> TaskOf(x)
  BY <1>8 DEF TaskOf
<1>23. CopiesAreFresh'
  BY <1>8, <1>16, <1>22 DEF MeshInv, CopiesAreFresh, TaskIsNext
<1>24. ASSUME cmap[p] # 0, ~TaskOf(p), NEW b \in FacesOf[p] \union {p}, cmap[b] # 0
       PROVE  of[b] = cmap[b]
  <2>1. b \in AroundOf[p] /\ b \in MeshBlocks
    BY MeshAssumption
  <2>2. m_cache[b].in
    <3>1. PICK c \in Nat : m_cache[b].refcount = c + 1
      BY <1>15, <2>1
    <3>2. QED
      BY <2>1, <3>1 DEF MeshInv, CopiesAreHeld
  <2>3. ~TaskIsNext(b)
    <3>1. CASE b = p
      <4>1. ASSUME TaskIsNext(p) PROVE TaskOf(p)
        <5>1. tasks # <<>> /\ Head(tasks).op = "add" /\ Head(tasks).p = p
          BY <4>1 DEF TaskIsNext
        <5>2. Head(tasks) \in ToSet(tasks)
          BY <5>1, TakeFirst DEF MeshInv, MeshTypes
        <5>3. QED
          BY <5>1, <5>2 DEF TaskOf
      <4>2. QED
        BY <1>24, <3>1, <4>1
    <3>2. CASE b \in FacesOf[p]
      <4>1. p \in FacesOf[b]
        BY <3>2, MeshAssumption
      <4>2. QED
        BY <1>24, <4>1 DEF TaskIsNext
    <3>3. QED
      BY <3>1, <3>2
  <2>4. m_cache[b].data = cmap[b]
    BY <1>24, <2>1, <2>2, <2>3 DEF MeshInv, CopiesAreFresh
  <2>5. QED
    BY <1>19, <2>1, <2>4
<1>25. NewestShows'
  <2> SUFFICES ASSUME NEW q \in MeshBlocks, cmap'[q] # 0, ~Waits(q)' PROVE NewestIs(q)'
    BY DEF NewestShows
  <2>1. cmap[q] # 0 /\ ~TaskOf(q) /\ (~QueuedOf(q) \/ q = p)
    BY <1>8, <1>12, <1>22 DEF Waits
  <2>2. CASE q = p
    <3>1. Making(q)'
      BY <1>20, <2>2 DEF Making
    <3>2. \A b \in FacesOf[p] \union {p} : cmap[b] # 0 => of[b] = cmap[b]
      BY <1>24, <2>1, <2>2
    <3>3. Shows(meshw.of, q)'
      BY <1>8, <1>20, <2>2, <3>2 DEF Shows
    <3>4. QED
      BY <3>1, <3>3 DEF NewestIs
  <2>3. CASE q # p
    <3>1. NewestIs(q)
      BY <2>1, <2>3 DEF MeshInv, NewestShows, Waits
    <3>2. ~Making(q) /\ ~Making(q)'
      BY <1>7, <1>20, <2>3 DEF Making
    <3>3. \A of_ : Shows(of_, q)' <=> Shows(of_, q)
      BY <1>8 DEF Shows
    <3>4. /\ \A k \in 1 .. Len(m_queue_out) : NewestOf(q, k) => Shows(m_queue_out[k].of, q)
          /\ ~MadeOf(q) => Shows(cmesh[q], q)
      BY <3>1, <3>2 DEF NewestIs
    <3>5. \A k \in 1 .. Len(m_queue_out') : NewestOf(q, k)' => Shows(m_queue_out[k].of, q)'
      <4>1. \A k : NewestOf(q, k)' <=> NewestOf(q, k)
        BY <1>7 DEF NewestOf
      <4>2. QED
        BY <1>7, <1>8, <3>4, <4>1 DEF Shows
    <3>6. ~MadeOf(q)' => Shows(cmesh[q], q)'
      BY <1>7, <1>8, <3>4 DEF Shows, MadeOf
    <3>7. QED
      BY <3>2, <3>5, <3>6 DEF NewestIs
  <2>4. QED
    BY <2>2, <2>3
<1>26. AcksAreDue'
  <2> SUFFICES ASSUME NEW q \in unacked PROVE AckDue(q)'
    BY <1>8 DEF AcksAreDue
  <2>1. AckDue(q) /\ ~Making(q)
    BY <1>7 DEF MeshInv, AcksAreDue, Making
  <2>2. CASE \E d \in ToSet(m_queue) : d.p = q /\ d.ack
    <3>1. PICK k \in 1 .. l : m_queue[k].p = q /\ m_queue[k].ack
      BY <1>3, <2>2
    <3>2. CASE k = n
      BY <1>5, <1>6, <1>20, <3>1, <3>2 DEF AckDue, Making
    <3>3. CASE k # n
      BY <1>9, <3>1, <3>3 DEF AckDue
    <3>4. QED
      BY <3>2, <3>3
  <2>3. QED
    BY <1>7, <1>8, <2>1, <2>2 DEF AckDue
<1>27. QED
  BY <1>11, <1>18, <1>21, <1>23, <1>25, <1>26 DEF MeshInv

(* A mesh is made: it is the newest of its block.                          *)
LEMMA MadeKeeps ==
  ASSUME MeshInv, MeshIsMade, UNCHANGED mainVars
  PROVE  MeshInv'
<1> DEFINE r == [p |-> meshw.p, ack |-> meshw.ack, of |-> meshw.of]
<1>1. /\ meshw.pc = "making" /\ m_queue_out' = Append(m_queue_out, r)
      /\ meshw' = [NoMade EXCEPT !.pc = "pop"] /\ m_update_sem' = m_update_sem
  BY DEF MeshIsMade, MeshAt, MeshGoTo
<1>2. /\ cmap' = cmap /\ cmesh' = cmesh /\ tasks' = tasks /\ replacing' = replacing
      /\ blocks_to_ack' = blocks_to_ack /\ meshStop' = meshStop /\ changes' = changes
      /\ unacked' = unacked
  BY DEF mainVars
<1>3. /\ m_queue' = m_queue /\ m_cache' = m_cache /\ m_urgents' = m_urgents
      /\ QueuedOnce' /\ CopiesAreHeld' /\ \A q : QueuedOf(q)' <=> QueuedOf(q)
  BY MeshQueueSame DEF MeshIsMade
<1>4. PICK p \in MeshBlocks : p = meshw.p
  BY <1>1 DEF MeshInv, MeshTypes
<1>5. /\ r \in MeshResults /\ r.p = p /\ r.ack = meshw.ack /\ r.of = meshw.of
      /\ m_queue_out \in Seq(MeshResults)
  BY <1>4 DEF MeshInv, MeshTypes, MeshResults
<1>6. PICK l \in Nat : l = Len(m_queue_out)
  BY <1>5
<1> HIDE DEF r
<1>7. /\ m_queue_out' \in Seq(MeshResults)
      /\ ToSet(m_queue_out') = ToSet(m_queue_out) \union {r}
  BY <1>1, <1>5, PutLast
<1>8. /\ Len(m_queue_out') = l + 1 /\ m_queue_out'[l + 1] = r
      /\ \A n \in 1 .. l : m_queue_out'[n] = m_queue_out[n]
  BY <1>1, <1>5, <1>6
<1>9. meshw'.pc = "pop"
  BY <1>1 DEF NoMade
<1>10. MeshTypes'
  <2>1. NoMesh \in MadeMeshes
    BY DEF NoMesh, MadeMeshes
  <2>2. meshw' \in [pc : {"wait", "drain", "woken", "pop", "making", "ended"},
                    p : MeshBlocks \union {NoMeshBlock}, ack : BOOLEAN, of : MadeMeshes]
    BY <1>1, <2>1 DEF NoMade
  <2>3. MeshTypes
    BY DEF MeshInv
  <2>4. QED
    BY <1>1, <1>2, <1>3, <1>7, <1>9, <2>2, <2>3 DEF MeshTypes
<1>11. \A q : TaskOf(q)' <=> TaskOf(q)
  BY <1>2 DEF TaskOf
<1>12. CopiesAreFresh'
  BY <1>2, <1>3, <1>11 DEF MeshInv, CopiesAreFresh, TaskIsNext
<1>13. NewestShows'
  <2> SUFFICES ASSUME NEW q \in MeshBlocks, cmap'[q] # 0, ~Waits(q)' PROVE NewestIs(q)'
    BY DEF NewestShows
  <2>1. NewestIs(q)
    BY <1>2, <1>3, <1>11 DEF MeshInv, NewestShows, Waits
  <2>2. ~Making(q)'
    BY <1>9 DEF Making
  <2>3. \A n \in 1 .. l + 1 : n \in 1 .. l \/ n = l + 1
    BY <1>6
  <2>4. l + 1 \in 1 .. l + 1 /\ \A n \in 1 .. l : l + 1 > n /\ n \in 1 .. l + 1
    BY <1>6
  <2>5. CASE q = p
    <3>1. Shows(meshw.of, q)
      BY <1>1, <1>4, <2>1, <2>5 DEF NewestIs, Making
    <3>2. \A n \in 1 .. l + 1 : NewestOf(q, n)' => n = l + 1
      BY <1>5, <1>8, <2>3, <2>4, <2>5 DEF NewestOf
    <3>3. m_queue_out'[l + 1].of = meshw.of
      BY <1>5, <1>8
    <3>4. \A n \in 1 .. l + 1 : NewestOf(q, n)' => Shows(m_queue_out[n].of, q)'
      BY <1>2, <3>1, <3>2, <3>3 DEF Shows
    <3>5. MadeOf(q)'
      BY <1>5, <1>8, <2>4, <2>5 DEF MadeOf
    <3>6. QED
      BY <1>8, <2>2, <3>4, <3>5 DEF NewestIs
  <2>6. CASE q # p
    <3>1. /\ \A n \in 1 .. l : NewestOf(q, n) => Shows(m_queue_out[n].of, q)
          /\ ~MadeOf(q) => Shows(cmesh[q], q)
      BY <1>4, <1>6, <2>1, <2>6 DEF NewestIs, Making
    <3>2. ASSUME NEW n \in 1 .. l + 1, NewestOf(q, n)' PROVE Shows(m_queue_out[n].of, q)'
      <4>1. m_queue_out'[n].p = q
        BY <3>2 DEF NewestOf
      <4>2. n \in 1 .. l
        BY <1>5, <1>8, <2>3, <2>6, <4>1
      <4>3. \A k \in 1 .. l : k > n => m_queue_out[k].p # q
        BY <1>8, <2>4, <3>2 DEF NewestOf
      <4>4. NewestOf(q, n)
        BY <1>6, <1>8, <4>1, <4>2, <4>3 DEF NewestOf
      <4>5. Shows(m_queue_out[n].of, q)
        BY <3>1, <4>2, <4>4
      <4>6. m_queue_out'[n] = m_queue_out[n]
        BY <1>8, <4>2
      <4>7. QED
        BY <1>2, <4>5, <4>6 DEF Shows
    <3>3. MadeOf(q) => MadeOf(q)'
      BY <1>6, <1>8, <2>4 DEF MadeOf
    <3>4. ~MadeOf(q)' => Shows(cmesh[q], q)'
      BY <1>2, <3>1, <3>3 DEF Shows
    <3>5. QED
      BY <1>8, <2>2, <3>2, <3>4 DEF NewestIs
  <2>7. QED
    BY <2>5, <2>6
<1>14. AcksAreDue'
  <2> SUFFICES ASSUME NEW q \in unacked PROVE AckDue(q)'
    BY <1>2 DEF AcksAreDue
  <2>1. AckDue(q)
    BY DEF MeshInv, AcksAreDue
  <2>2. CASE Making(q) /\ meshw.ack
    BY <1>4, <1>5, <1>7, <2>2 DEF AckDue, Making
  <2>3. QED
    BY <1>2, <1>3, <1>7, <2>1, <2>2 DEF AckDue
<1>15. QED
  BY <1>3, <1>10, <1>12, <1>13, <1>14 DEF MeshInv

(* The thread goes on, with no mesh in hand.                               *)
LEMMA MeshLoopKeeps ==
  ASSUME MeshInv, MeshLoop, UNCHANGED mainVars
  PROVE  MeshInv'
<1>1. /\ meshw.pc # "making" /\ meshw'.pc # "making" /\ m_update_sem' \in Nat
      /\ meshw' \in [pc : {"wait", "drain", "woken", "pop", "making", "ended"},
                     p : MeshBlocks \union {NoMeshBlock}, ack : BOOLEAN, of : MadeMeshes]
      /\ m_queue_out' = m_queue_out
  <2>1. NoMesh \in MadeMeshes
    BY DEF NoMesh, MadeMeshes
  <2>2. \A pc \in {"wait", "drain", "woken", "pop", "making", "ended"} :
          /\ [NoMade EXCEPT !.pc = pc].pc = pc
          /\ [NoMade EXCEPT !.pc = pc]
               \in [pc : {"wait", "drain", "woken", "pop", "making", "ended"},
                    p : MeshBlocks \union {NoMeshBlock}, ack : BOOLEAN, of : MadeMeshes]
    BY <2>1 DEF NoMade
  <2>3. m_update_sem \in Nat /\ (m_update_sem > 0 => m_update_sem - 1 \in Nat)
    BY DEF MeshInv, MeshTypes
  <2>4. meshw \in [pc : {"wait", "drain", "woken", "pop", "making", "ended"},
                   p : MeshBlocks \union {NoMeshBlock}, ack : BOOLEAN, of : MadeMeshes]
    BY DEF MeshInv, MeshTypes
  <2>5. \A pc : MeshGoTo(pc) <=> meshw' = [NoMade EXCEPT !.pc = pc]
    BY DEF MeshGoTo
  <2>6. CASE MeshAt("wait") /\ MeshGoTo("drain") /\ m_update_sem' = m_update_sem - 1
             /\ m_update_sem > 0 /\ m_queue_out' = m_queue_out
    BY <2>2, <2>3, <2>5, <2>6 DEF MeshAt
  <2>7. CASE MeshAt("drain") /\ m_queue_out' = m_queue_out
             /\ IF m_update_sem > 0 THEN m_update_sem' = m_update_sem - 1 /\ meshw' = meshw
                ELSE MeshGoTo("woken") /\ m_update_sem' = m_update_sem
    BY <2>2, <2>3, <2>4, <2>5, <2>7 DEF MeshAt
  <2>8. CASE MeshAt("woken") /\ MeshGoTo(IF meshStop THEN "ended" ELSE "pop")
             /\ m_update_sem' = m_update_sem /\ m_queue_out' = m_queue_out
    <3>1. MeshGoTo("ended") \/ MeshGoTo("pop")
      BY <2>8
    <3>2. QED
      BY <2>2, <2>3, <2>5, <2>8, <3>1 DEF MeshAt
  <2>9. CASE MeshAt("pop") /\ MeshGoTo(IF meshStop THEN "ended" ELSE "wait")
             /\ m_update_sem' = m_update_sem /\ m_queue_out' = m_queue_out
    <3>1. MeshGoTo("ended") \/ MeshGoTo("wait")
      BY <2>9
    <3>2. QED
      BY <2>2, <2>3, <2>5, <2>9, <3>1 DEF MeshAt
  <2>10. QED
    BY <2>6, <2>7, <2>8, <2>9 DEF MeshLoop
<1>2. /\ cmap' = cmap /\ cmesh' = cmesh /\ tasks' = tasks /\ replacing' = replacing
      /\ blocks_to_ack' = blocks_to_ack /\ meshStop' = meshStop /\ changes' = changes
      /\ unacked' = unacked
  BY DEF mainVars
<1>3. /\ m_queue' = m_queue /\ m_cache' = m_cache /\ m_urgents' = m_urgents
      /\ QueuedOnce' /\ CopiesAreHeld' /\ \A q : QueuedOf(q)' <=> QueuedOf(q)
  BY MeshQueueSame DEF MeshLoop
<1>4. MeshTypes'
  <2>1. MeshTypes
    BY DEF MeshInv
  <2>2. QED
    BY <1>1, <1>2, <1>3, <2>1 DEF MeshTypes
<1>5. \A q : TaskOf(q)' <=> TaskOf(q)
  BY <1>2 DEF TaskOf
<1>6. CopiesAreFresh'
  BY <1>2, <1>3, <1>5 DEF MeshInv, CopiesAreFresh, TaskIsNext
<1>7. NewestShows'
  <2> SUFFICES ASSUME NEW q \in MeshBlocks, cmap'[q] # 0, ~Waits(q)' PROVE NewestIs(q)'
    BY DEF NewestShows
  <2>1. NewestIs(q)
    BY <1>2, <1>3, <1>5 DEF MeshInv, NewestShows, Waits
  <2>2. ~Making(q) /\ ~Making(q)'
    BY <1>1 DEF Making
  <2>3. \A n : NewestOf(q, n)' <=> NewestOf(q, n)
    BY <1>1 DEF NewestOf
  <2>4. MadeOf(q)' <=> MadeOf(q)
    BY <1>1 DEF MadeOf
  <2>5. \A n \in 1 .. Len(m_queue_out) : NewestOf(q, n) => Shows(m_queue_out[n].of, q)'
    BY <1>1, <1>2, <2>1, <2>2 DEF NewestIs, Shows
  <2>6. ~MadeOf(q) => Shows(cmesh[q], q)'
    BY <1>2, <2>1, <2>2 DEF NewestIs, Shows
  <2>7. QED
    BY <1>1, <2>2, <2>3, <2>4, <2>5, <2>6 DEF NewestIs
<1>8. AcksAreDue'
  BY <1>1, <1>2, <1>3 DEF MeshInv, AcksAreDue, AckDue, Making
<1>9. QED
  BY <1>3, <1>4, <1>6, <1>7, <1>8 DEF MeshInv

LEMMA MeshKeeps ==
  ASSUME MeshInv, [MeshNext]_meshVars
  PROVE  MeshInv'
<1>1. CASE \E p \in MeshBlocks : handleCommand_BlockData(p)
  <2>1. PICK p \in MeshBlocks : handleCommand_BlockData(p)
    BY <1>1
  <2>2. /\ MainIsFree /\ ChangeBlock(p) /\ tasks' = UpdateTasks(WithEdge(p), TRUE, FALSE)
        /\ unacked' = unacked \union (IF TRUE THEN {p} ELSE {})
        /\ UNCHANGED <<cmesh, meshQueueVars, m_update_sem, meshw, m_queue_out, replacing,
                       blocks_to_ack, meshStop>>
    BY <2>1 DEF handleCommand_BlockData
  <2>3. QED
    BY <2>2, ChangeKeeps
<1>2. CASE \E p \in MeshBlocks : EditMeshBlock(p)
  <2>1. PICK p \in MeshBlocks : EditMeshBlock(p)
    BY <1>2
  <2>2. /\ MainIsFree /\ ChangeBlock(p) /\ tasks' = UpdateTasks(WithEdge(p), FALSE, TRUE)
        /\ unacked' = unacked \union (IF FALSE THEN {p} ELSE {})
        /\ UNCHANGED <<cmesh, meshQueueVars, m_update_sem, meshw, m_queue_out, replacing,
                       blocks_to_ack, meshStop>>
    BY <2>1 DEF EditMeshBlock
  <2>3. QED
    BY <2>2, ChangeKeeps
<1>3. CASE \E p \in MeshBlocks : UnloadMeshBlock(p)
  BY <1>3, UnloadKeeps
<1>4. CASE MainFinishes
  BY <1>4, AddTaskKeeps, PostKeeps, QuietKeeps, ReplaceKeeps, EndReplacingKeeps DEF MainFinishes
<1>5. CASE stopMesh
  BY <1>5, QuietKeeps
<1>6. CASE MeshThread
  BY <1>6, MeshLoopKeeps, PopKeeps, MadeKeeps DEF MeshThread
<1>7. CASE UNCHANGED meshVars
  <2>1. /\ cmap' = cmap /\ cmesh' = cmesh /\ m_update_sem' = m_update_sem /\ meshw' = meshw
        /\ m_queue_out' = m_queue_out /\ replacing' = replacing /\ blocks_to_ack' = blocks_to_ack
        /\ meshStop' = meshStop /\ changes' = changes /\ unacked' = unacked /\ tasks' = tasks
        /\ UNCHANGED meshQueueVars
    BY <1>7 DEF meshVars, meshQueueVars
  <2>2. /\ m_queue' = m_queue /\ m_cache' = m_cache /\ m_urgents' = m_urgents
        /\ QueuedOnce' /\ CopiesAreHeld' /\ \A q : QueuedOf(q)' <=> QueuedOf(q)
    BY <2>1, MeshQueueSame
  <2>3. \A q : TaskOf(q)' <=> TaskOf(q)
    BY <2>1 DEF TaskOf
  <2>4. MeshTypes'
    <3>1. MeshTypes
      BY DEF MeshInv
    <3>2. QED
      BY <2>1, <2>2, <3>1 DEF MeshTypes
  <2>5. CopiesAreFresh'
    BY <2>1, <2>2, <2>3 DEF MeshInv, CopiesAreFresh, TaskIsNext
  <2>6. NewestShows'
    <3> SUFFICES ASSUME NEW q \in MeshBlocks, cmap'[q] # 0, ~Waits(q)' PROVE NewestIs(q)'
      BY DEF NewestShows
    <3>1. NewestIs(q)
      BY <2>1, <2>2, <2>3 DEF MeshInv, NewestShows, Waits
    <3>2. QED
      BY <2>1, <3>1, NewestSame
  <2>7. AcksAreDue'
    BY <2>1, <2>2 DEF MeshInv, AcksAreDue, AckDue, Making
  <2>8. QED
    BY <2>2, <2>4, <2>5, <2>6, <2>7 DEF MeshInv
<1>8. QED
  BY <1>1, <1>2, <1>3, <1>4, <1>5, <1>6, <1>7 DEF MeshNext

LEMMA MeshBegins ==
  ASSUME MeshInit
  PROVE  MeshInv
<1>1. /\ cmap = NoMesh /\ cmesh = [p \in MeshBlocks |-> NoMesh]
      /\ m_cache = [p \in MeshBlocks |-> NotCached]
      /\ m_queue = <<>> /\ m_urgents = {} /\ m_update_sem = 0
      /\ meshw = NoMade /\ m_queue_out = <<>>
      /\ tasks = <<>> /\ replacing = FALSE /\ blocks_to_ack = <<>>
      /\ meshStop = FALSE /\ changes = 0 /\ unacked = {}
  BY DEF MeshInit
<1>2. ToSet(m_queue) = {} /\ ToSet(tasks) = {}
  BY <1>1, EmptyQueue
<1>3. NoMesh \in MadeMeshes /\ \A p \in MeshBlocks : NoMesh[p] = 0
  BY DEF NoMesh, MadeMeshes
<1>4. 0 \in 0 .. MaxChanges /\ 0 <= MAX_GOT_BLOCKS
  BY MeshAssumption
<1>5. MeshTypes
  <2>1. cmap \in [MeshBlocks -> 0 .. MaxChanges] /\ cmesh \in [MeshBlocks -> MadeMeshes]
    BY <1>1, <1>3, <1>4 DEF NoMesh
  <2>2. m_cache \in [MeshBlocks -> [in : BOOLEAN, data : 0 .. MaxChanges, refcount : Nat]]
    BY <1>1, <1>4 DEF NotCached
  <2>3. /\ meshw \in [pc : {"wait", "drain", "woken", "pop", "making", "ended"},
                      p : MeshBlocks \union {NoMeshBlock}, ack : BOOLEAN, of : MadeMeshes]
        /\ meshw.pc # "making"
    BY <1>1, <1>3 DEF NoMade
  <2>4. /\ m_queue \in Seq(MeshQueued) /\ m_queue_out \in Seq(MeshResults)
        /\ tasks \in Seq(MeshTasks) /\ blocks_to_ack \in Seq(MeshBlocks)
        /\ Len(blocks_to_ack) = 0
    BY <1>1
  <2>5. QED
    BY <1>1, <1>2, <1>4, <2>1, <2>2, <2>3, <2>4 DEF MeshTypes
<1>6. QueuedBlocks = {}
  BY <1>2 DEF QueuedBlocks, QueuedOf
<1>7. CopiesAreHeld
  <2>1. \A b \in MeshBlocks : {p \in QueuedBlocks : b \in AroundOf[p]} = {}
    BY <1>6
  <2>2. \A b \in MeshBlocks : m_cache[b].refcount = 0
    BY <1>1 DEF NotCached
  <2>3. QED
    BY <1>1, <2>1, <2>2, FS_EmptySet DEF CopiesAreHeld
<1>8. QueuedOnce /\ CopiesAreFresh /\ NewestShows /\ AcksAreDue
  BY <1>1, <1>3 DEF QueuedOnce, CopiesAreFresh, NotCached, NewestShows, AcksAreDue
<1>9. QED
  BY <1>5, <1>7, <1>8 DEF MeshInv

LEMMA MeshMoves ==
  ASSUME [WorkersNext]_workersVars
  PROVE  [MeshNext]_meshVars
<1>1. CASE WorkersNext
  BY <1>1 DEF WorkersNext, AbmPart, AsyncPart, HttpPart, MeshPart, MediaPart, EmergePart, PeersPart
<1>2. CASE UNCHANGED workersVars
  BY <1>2 DEF workersVars
<1>3. QED
  BY <1>1, <1>2

LEMMA MeshAlways == WorkersSpec => []MeshInv
<1>1. WorkersInit => MeshInv
  BY MeshBegins DEF WorkersInit
<1>2. MeshInv /\ [WorkersNext]_workersVars => MeshInv'
  BY MeshMoves, MeshKeeps
<1>3. QED
  BY <1>1, <1>2, PTL DEF WorkersSpec

LEMMA MeshInvFollows ==
  ASSUME MeshInv
  PROVE  MeshesFollowTheMap
<1>1. /\ DOMAIN m_queue = 1 .. Len(m_queue) /\ DOMAIN m_queue_out = 1 .. Len(m_queue_out)
      /\ DOMAIN tasks = 1 .. Len(tasks)
      /\ ToSet(m_queue) = {m_queue[n] : n \in 1 .. Len(m_queue)}
      /\ ToSet(m_queue_out) = {m_queue_out[n] : n \in 1 .. Len(m_queue_out)}
      /\ ToSet(tasks) = {tasks[n] : n \in 1 .. Len(tasks)}
      /\ \A n \in 1 .. Len(m_queue) : m_queue[n] \in MeshQueued
  BY QueueSet DEF MeshInv, MeshTypes
<1>2. ASSUME NEW p \in MeshBlocks, cmap[p] # 0, ~ToBeMade(p)
      PROVE  \A b \in FacesOf[p] \union {p} : cmap[b] # 0 => cmesh[p][b] = cmap[b]
  <2>1. ~Waits(p) /\ ~Making(p) /\ ~MadeOf(p)
    BY <1>1, <1>2 DEF ToBeMade, QueuedAt, Waits, TaskOf, QueuedOf, Making, MadeOf
  <2>2. NewestIs(p)
    BY <1>2, <2>1 DEF MeshInv, NewestShows
  <2>3. QED
    BY <2>1, <2>2 DEF NewestIs, Shows
<1>3. AckIsDue
  <2> SUFFICES ASSUME NEW p \in unacked
               PROVE  \/ \E n \in DOMAIN tasks : tasks[n].op = "add" /\ tasks[n].p = p /\ tasks[n].ack
                      \/ \E n \in DOMAIN m_queue : m_queue[n] = [p |-> p, ack |-> TRUE]
                      \/ meshw.pc = "making" /\ meshw.p = p /\ meshw.ack
                      \/ \E n \in DOMAIN m_queue_out : m_queue_out[n].p = p /\ m_queue_out[n].ack
                      \/ p \in ToSet(blocks_to_ack)
    BY DEF AckIsDue
  <2>1. AckDue(p)
    BY DEF MeshInv, AcksAreDue
  <2>2. CASE \E q \in ToSet(m_queue) : q.p = p /\ q.ack
    <3>1. PICK n \in DOMAIN m_queue : m_queue[n].p = p /\ m_queue[n].ack
      BY <1>1, <2>2
    <3>2. PICK e \in MeshQueued : e = m_queue[n]
      BY <1>1, <3>1
    <3>3. e = [p |-> e.p, ack |-> e.ack] /\ e.ack \in BOOLEAN
      BY DEF MeshQueued
    <3>4. e.p = p /\ e.ack = TRUE
      BY <3>1, <3>2, <3>3
    <3>5. m_queue[n] = [p |-> p, ack |-> TRUE]
      BY <3>2, <3>3, <3>4
    <3>6. QED
      BY <3>1, <3>5
  <2>3. CASE ~(\E q \in ToSet(m_queue) : q.p = p /\ q.ack)
    BY <1>1, <2>1, <2>3 DEF AckDue, Making
  <2>4. QED
    BY <2>2, <2>3
<1>4. QED
  BY <1>2, <1>3 DEF MeshesFollowTheMap, MeshesAreCurrent

(* The meshes of the client, for any map, any neighbourhoods in which      *)
(* faces are shared, and any number of changes: when no mesh of a block is *)
(* on its way the one it has shows what is there, and no block that was    *)
(* received is forgotten before it is acknowledged                         *)
(* (client/mesh_generator_thread.cpp).                                     *)
THEOREM WorkersMeshesFollowTheMap == WorkersSpec => []MeshesFollowTheMap
<1>1. MeshInv => MeshesFollowTheMap
  BY MeshInvFollows
<1>2. QED
  BY <1>1, MeshAlways, PTL

(* The books of that queue, of those of BooksAgree.                        *)
LEMMA MeshInvSound ==
  ASSUME MeshInv
  PROVE  QueueIsSound /\ MeshTypeOK
<1>1. /\ m_queue \in Seq(MeshQueued) /\ DOMAIN m_queue = 1 .. Len(m_queue)
      /\ ToSet(m_queue) = {m_queue[n] : n \in 1 .. Len(m_queue)}
      /\ \A n \in 1 .. Len(m_queue) : m_queue[n] \in MeshQueued /\ m_queue[n].p \in MeshBlocks
      /\ \A n, k \in 1 .. Len(m_queue) : m_queue[n].p = m_queue[k].p => n = k
  <2>1. m_queue \in Seq(MeshQueued) /\ QueuedOnce
    BY DEF MeshInv, MeshTypes
  <2>2. DOMAIN m_queue = 1 .. Len(m_queue) /\ ToSet(m_queue) = {m_queue[n] : n \in 1 .. Len(m_queue)}
    BY <2>1, QueueSet
  <2>3. \A n \in 1 .. Len(m_queue) : m_queue[n] \in MeshQueued
    BY <2>1
  <2>4. \A e \in MeshQueued : e.p \in MeshBlocks
    BY DEF MeshQueued
  <2>5. QED
    BY <2>1, <2>2, <2>3, <2>4 DEF QueuedOnce
<1>2. ASSUME NEW b \in MeshBlocks
      PROVE  /\ m_cache[b].refcount = Cardinality({n \in DOMAIN m_queue : b \in AroundOf[m_queue[n].p]})
             /\ m_cache[b].refcount \in 0 .. Cardinality(MeshBlocks)
  <2> DEFINE P == {p \in QueuedBlocks : b \in AroundOf[p]}
             A == {n \in DOMAIN m_queue : b \in AroundOf[m_queue[n].p]}
             f == [p \in P |-> CHOOSE n \in A : m_queue[n].p = p]
  <2>1. m_cache[b].refcount = Cardinality(P)
    BY DEF MeshInv, CopiesAreHeld
  <2>2. IsFiniteSet(P) /\ Cardinality(P) \in 0 .. Cardinality(MeshBlocks)
    <3>1. IsFiniteSet(MeshBlocks) /\ P \subseteq MeshBlocks
      BY MeshAssumption DEF QueuedBlocks
    <3>2. /\ IsFiniteSet(P) /\ Cardinality(P) <= Cardinality(MeshBlocks)
          /\ Cardinality(P) \in Nat /\ Cardinality(MeshBlocks) \in Nat
      BY <3>1, FS_Subset, FS_CardinalityType
    <3>3. QED
      BY <3>2
  <2>3. \A p \in MeshBlocks : p \in P <=> \E n \in A : m_queue[n].p = p
    BY <1>1 DEF QueuedBlocks, QueuedOf
  <2>4. P \subseteq MeshBlocks /\ \A n \in A : m_queue[n].p \in MeshBlocks
    BY <1>1 DEF QueuedBlocks
  <2>5. \A n, k \in A : m_queue[n].p = m_queue[k].p => n = k
    BY <1>1
  <2> HIDE DEF P, A
  <2>6. f \in Bijection(P, A)
    <3>1. \A p \in P : f[p] \in A /\ m_queue[f[p]].p = p
      BY <2>3, <2>4
    <3>2. DOMAIN f = P /\ f = [p \in P |-> f[p]]
      OBVIOUS
    <3> HIDE DEF f
    <3>3. f \in [P -> A] /\ \A p, q \in P : f[p] = f[q] => p = q
      BY <3>1, <3>2
    <3>4. ASSUME NEW n \in A PROVE \E p \in P : f[p] = n
      <4>1. m_queue[n].p \in P
        BY <2>3, <2>4
      <4>2. f[m_queue[n].p] = n
        BY <2>5, <3>1, <4>1
      <4>3. QED
        BY <4>1, <4>2
    <3>5. QED
      BY <3>3, <3>4 DEF Bijection, Injection, IsInjective, Surjection
  <2>7. Cardinality(A) = Cardinality(P)
    BY <2>2, <2>6, FS_Bijection DEF ExistsBijection
  <2>8. QED
    BY <2>1, <2>2, <2>7 DEF A
<1>3. \A p \in m_urgents : QueuedAt(p) # {}
  BY <1>1 DEF MeshInv, CopiesAreHeld, QueuedAt, QueuedOf
<1>4. ASSUME NEW p \in MeshBlocks
      PROVE  Cardinality(QueuedAt(p)) <= 1
  <2>1. CASE QueuedAt(p) = {}
    BY <2>1, FS_EmptySet
  <2>2. CASE QueuedAt(p) # {}
    <3>1. PICK n : QueuedAt(p) = {n}
      <4>1. PICK n \in QueuedAt(p) : TRUE
        BY <2>2
      <4>2. \A k \in QueuedAt(p) : k = n
        BY <1>1, <4>1 DEF QueuedAt
      <4>3. QueuedAt(p) = {n}
        BY <4>1, <4>2
      <4>4. QED
        BY <4>3
    <3>2. QED
      BY <3>1, FS_Singleton
  <2>3. QED
    BY <2>1, <2>2
<1>5. QED
  BY <1>2, <1>3, <1>4 DEF QueueIsSound, MeshTypeOK, MeshInv, MeshTypes, CopiesAreHeld
-----------------------------------------------------------------------------
(* Media.  What is under way is in one place only, and is counted.         *)
MediaFetches == [remote : Remotes, file : Files \union {HashSet}]
MediaResults == [remote : Remotes, file : Files \union {HashSet}, has : SUBSET Files]

MediaTypes ==
  /\ media \in {"announced", "started", "done"} /\ received \subseteq Files
  /\ m_uncached_count \in 0 .. MaxFiles /\ m_uncached_received_count \in Nat
  /\ current_remote \in [Files -> Remotes \union {NoRemote}]
  /\ available_remotes \in [Files -> Seq(Remotes)]
  /\ m_outstanding_hash_sets \in Nat /\ m_httpfetch_active \in Nat
  /\ m_name_bound \in 0 .. MaxFiles /\ visited \in 0 .. MaxFiles
  /\ step \in {"outside", "results", "transfers"} /\ changing_name_bound \in BOOLEAN
  /\ fetching \subseteq MediaFetches /\ fetched \in Seq(MediaResults)
  /\ asked_server \subseteq Files /\ bunches \in Seq(SUBSET Files)
  /\ offered_by \in [Files -> SUBSET Remotes] /\ tried \in [Files -> SUBSET Remotes]

UnderWay   == fetching \union ToSet(fetched)
SameKey(o, e) == o.remote = e.remote /\ o.file = e.file

EachFetchedOnce ==
  /\ Once(fetched)
  /\ \A e, d \in ToSet(fetched) : SameKey(e, d) => e = d
  /\ \A e \in ToSet(fetched), o \in fetching : ~SameKey(e, o)

HashSetsOut  == {k \in MediaFetches : k.file = HashSet /\ \E o \in UnderWay : SameKey(o, k)}
FilesFetched == {f \in Files : current_remote[f] # NoRemote}

MediaCounts ==
  /\ m_httpfetch_active = Cardinality(fetching) + Len(fetched)
  /\ m_httpfetch_active = Cardinality(FilesFetched) + m_outstanding_hash_sets
  /\ m_outstanding_hash_sets = Cardinality(HashSetsOut)
  /\ \A o \in UnderWay : o.file # HashSet =>
       o.file \notin received /\ current_remote[o.file] = o.remote

(* The files up to the bound are settled, and in the loop over the files   *)
(* none that was visited waits for a remote server.                        *)
BoundIsSettled ==
  \A f \in 1 .. m_name_bound :
    f \in received \/ (/\ available_remotes[f] = <<>> /\ current_remote[f] = NoRemote
                       /\ m_outstanding_hash_sets = 0)

VisitedAreBusy ==
  step = "transfers" =>
    /\ m_name_bound <= visited /\ (changing_name_bound => m_name_bound = visited)
    /\ \A f \in 1 .. visited : \/ f \in received \/ current_remote[f] # NoRemote
                               \/ available_remotes[f] = <<>>

OffersAreKept ==
  \A f \in Files \ received :
    offered_by[f] \subseteq tried[f] \union {current_remote[f]} \union ToSet(available_remotes[f])

MediaStarted ==
  /\ MediaCounts /\ EachFetchedOnce /\ BoundIsSettled /\ VisitedAreBusy /\ OffersAreKept
  /\ Cardinality(FilesFetched) <= m_httpfetch_active_limit

ServerIsAsked ==
  asked_server # {} \/ bunches # <<>> =>
    /\ fetching = {} /\ fetched = <<>> /\ step = "outside"

MediaInv ==
  /\ MediaTypes /\ ServerIsAsked /\ RemotesFirst
  /\ media = "announced" => MediaInit
  /\ media = "started" => MediaStarted
  /\ media = "done" => fetching = {} /\ fetched = <<>> /\ step = "outside"
  /\ media # "announced" =>
       m_uncached_received_count - m_uncached_count = Cardinality(received) - MaxFiles

LEMMA MediaFinite ==
  /\ IsFiniteSet(Files) /\ IsFiniteSet(MediaFetches)
  /\ \A r \in Remotes : r # NoRemote
  /\ \A f \in Files : f # HashSet
  /\ Files \subseteq Nat /\ Cardinality(Files) = MaxFiles /\ MaxFiles \in Nat
<1>1. MaxFiles \in Nat /\ MaxRemotes \in Nat
  BY MediaAssumption
<1>2. IsFiniteSet(Files) /\ Cardinality(Files) = MaxFiles /\ IsFiniteSet(Remotes)
  BY <1>1, FS_Interval DEF Files, Remotes
<1> DEFINE Pairs == Remotes \X (Files \union {HashSet})
           f == [k \in MediaFetches |-> <<k.remote, k.file>>]
<1>3. IsFiniteSet(Pairs)
  <2>1. IsFiniteSet(Files \union {HashSet})
    BY <1>2, FS_AddElement
  <2>2. QED
    BY <1>2, <2>1, FS_Product
<1>4. f \in [MediaFetches -> Pairs] /\ \A k, o \in MediaFetches : f[k] = f[o] => k = o
  BY DEF MediaFetches
<1> HIDE DEF f, Pairs
<1>5. IsFiniteSet(MediaFetches)
  BY <1>3, <1>4, FS_Injection DEF Injection, IsInjective
<1>6. QED
  BY <1>1, <1>2, <1>5 DEF Files, Remotes, NoRemote, HashSet

LEMMA MediaBegins ==
  ASSUME MediaInit
  PROVE  MediaInv
<1>1. /\ media = "announced" /\ received = {}
      /\ m_uncached_count = 0 /\ m_uncached_received_count = 0
      /\ current_remote = [f \in Files |-> NoRemote]
      /\ available_remotes = [f \in Files |-> <<>>]
      /\ m_outstanding_hash_sets = 0 /\ m_httpfetch_active = 0 /\ m_name_bound = 0
      /\ step = "outside" /\ visited = 0 /\ changing_name_bound = FALSE
      /\ fetching = {} /\ fetched = <<>>
      /\ asked_server = {} /\ bunches = <<>>
      /\ offered_by = [f \in Files |-> {}] /\ tried = [f \in Files |-> {}]
  BY DEF MediaInit
<1>2. MediaTypes
  <2>1. MaxFiles \in Nat
    BY MediaFinite
  <2>2. <<>> \in Seq(Remotes) /\ <<>> \in Seq(MediaResults) /\ <<>> \in Seq(SUBSET Files)
    OBVIOUS
  <2>3. /\ current_remote \in [Files -> Remotes \union {NoRemote}]
        /\ offered_by \in [Files -> SUBSET Remotes] /\ tried \in [Files -> SUBSET Remotes]
    BY <1>1
  <2>4. available_remotes \in [Files -> Seq(Remotes)]
    BY <1>1, <2>2
  <2>5. 0 \in 0 .. MaxFiles
    BY <2>1
  <2>6. fetched \in Seq(MediaResults) /\ bunches \in Seq(SUBSET Files)
    BY <1>1, <2>2
  <2>7. QED
    BY <1>1, <2>3, <2>4, <2>5, <2>6 DEF MediaTypes
<1>3. QED
  BY <1>1, <1>2 DEF MediaInv, ServerIsAsked, RemotesFirst

(* The first step: nothing is under way but the hash sets.                 *)
LEMMA InitialStepKeeps ==
  ASSUME MediaInv, NEW cached \in SUBSET Files, initialStep(cached)
  PROVE  MediaInv'
<1> DEFINE remote == cached # Files /\ MaxRemotes > 0
<1>1. MediaInit
  BY DEF MediaInv, initialStep
<1>2. /\ received = {} /\ m_uncached_received_count = 0
      /\ current_remote = [f \in Files |-> NoRemote]
      /\ available_remotes = [f \in Files |-> <<>>]
      /\ m_name_bound = 0 /\ step = "outside" /\ visited = 0 /\ changing_name_bound = FALSE
      /\ fetched = <<>> /\ bunches = <<>>
      /\ offered_by = [f \in Files |-> {}] /\ tried = [f \in Files |-> {}]
  BY <1>1 DEF MediaInit
<1>3. /\ media' = "started" /\ received' = cached
      /\ m_uncached_count' = MaxFiles - Cardinality(cached)
      /\ fetching' = IF remote THEN {Fetch(r, HashSet) : r \in Remotes} ELSE {}
      /\ m_httpfetch_active' = Cardinality(fetching')
      /\ m_outstanding_hash_sets' = Cardinality(fetching')
      /\ asked_server' = IF remote THEN {} ELSE Files \ cached
      /\ m_uncached_received_count' = 0 /\ current_remote' = current_remote
      /\ available_remotes' = available_remotes
      /\ m_name_bound' = 0 /\ step' = "outside" /\ visited' = 0 /\ changing_name_bound' = FALSE
      /\ fetched' = <<>> /\ bunches' = <<>> /\ offered_by' = offered_by /\ tried' = tried
  BY <1>2 DEF initialStep, loop
<1> HIDE DEF remote
<1>4. fetching' \subseteq MediaFetches /\ \A k \in fetching' : k.file = HashSet
  BY <1>3 DEF MediaFetches, Fetch
<1>5. IsFiniteSet(fetching') /\ Cardinality(fetching') \in Nat
  BY <1>4, MediaFinite, FS_Subset, FS_CardinalityType
<1>6. Cardinality(cached) \in 0 .. MaxFiles
  <2>1. /\ Cardinality(cached) <= Cardinality(Files) /\ IsFiniteSet(cached)
    BY MediaFinite, FS_Subset
  <2>2. Cardinality(cached) \in Nat
    BY <2>1, FS_CardinalityType
  <2>3. QED
    BY <2>1, <2>2, MediaFinite
<1>7. MediaTypes'
  <2>1. /\ MaxFiles - Cardinality(cached) \in 0 .. MaxFiles /\ 0 \in 0 .. MaxFiles
    BY <1>6, MediaFinite
  <2>2. /\ <<>> \in Seq(MediaResults) /\ <<>> \in Seq(SUBSET Files)
        /\ asked_server' \subseteq Files
    BY <1>3
  <2>3. MediaTypes
    BY DEF MediaInv
  <2>4. QED
    BY <1>3, <1>4, <1>5, <2>1, <2>2, <2>3 DEF MediaTypes
<1>8. UnderWay' = fetching' /\ ToSet(fetched') = {}
  BY <1>3, EmptyQueue DEF UnderWay
<1>9. HashSetsOut' = fetching'
  <2>1. \A k, o \in MediaFetches : SameKey(o, k) => o = k
    BY DEF SameKey, MediaFetches
  <2>2. \A k \in MediaFetches : SameKey(k, k)
    BY DEF SameKey
  <2>3. HashSetsOut' = {k \in MediaFetches : k.file = HashSet /\ \E o \in fetching' : SameKey(o, k)}
    BY <1>8 DEF HashSetsOut, SameKey
  <2>4. QED
    BY <1>4, <2>1, <2>2, <2>3
<1>10. Cardinality(FilesFetched') = 0
  <2>1. FilesFetched' = {}
    BY <1>2, <1>3 DEF FilesFetched
  <2>2. QED
    BY <2>1, FS_EmptySet
<1>11. MediaStarted'
  <2>1. MediaCounts'
    <3>1. \A o \in UnderWay' : o.file = HashSet
      BY <1>4, <1>8
    <3>2. Len(fetched') = 0
      BY <1>3
    <3>3. QED
      BY <1>3, <1>5, <1>9, <1>10, <3>1, <3>2 DEF MediaCounts
  <2>2. EachFetchedOnce'
    BY <1>3, <1>8, EmptyQueue DEF EachFetchedOnce
  <2>3. BoundIsSettled'
    BY <1>3 DEF BoundIsSettled
  <2>4. VisitedAreBusy'
    BY <1>3 DEF VisitedAreBusy
  <2>5. OffersAreKept'
    BY <1>2, <1>3 DEF OffersAreKept
  <2>6. 0 <= m_httpfetch_active_limit
    BY MediaAssumption
  <2>7. QED
    BY <1>10, <2>1, <2>2, <2>3, <2>4, <2>5, <2>6 DEF MediaStarted
<1>12. asked_server' # {} \/ bunches' # <<>> => fetching' = {}
  BY <1>3
<1>13. ServerIsAsked'
  BY <1>3, <1>12 DEF ServerIsAsked
<1>14. RemotesFirst'
  <2> SUFFICES ASSUME NEW f \in asked_server'
               PROVE  m_outstanding_hash_sets' = 0 /\ offered_by'[f] \subseteq tried'[f]
    BY DEF RemotesFirst
  <2>1. fetching' = {} /\ f \in Files
    BY <1>3, <1>12
  <2>2. QED
    BY <1>2, <1>3, <2>1, FS_EmptySet
<1>15. m_uncached_received_count' - m_uncached_count' = Cardinality(received') - MaxFiles
  BY <1>3, <1>6, MediaFinite
<1>16. QED
  BY <1>3, <1>7, <1>11, <1>13, <1>14, <1>15 DEF MediaInv

(* A result is taken: nothing else of that server and file is under way.   *)
LEMMA ResultTaken ==
  ASSUME MediaInv, NEW r, TakeResult(r), fetching' = fetching
  PROVE  /\ MediaStarted /\ MediaTypes /\ r \in MediaResults /\ r \in UnderWay
         /\ fetched' \in Seq(MediaResults) /\ UnderWay = UnderWay' \union {r}
         /\ \A o \in UnderWay' : ~SameKey(o, r)
         /\ EachFetchedOnce'
         /\ m_httpfetch_active' = Cardinality(fetching') + Len(fetched')
         /\ m_httpfetch_active' = m_httpfetch_active - 1 /\ m_httpfetch_active' \in Nat
         /\ Cardinality(HashSetsOut') = IF r.file = HashSet THEN Cardinality(HashSetsOut) - 1
                                        ELSE Cardinality(HashSetsOut)
         /\ Cardinality(HashSetsOut') \in Nat
         /\ asked_server = {} /\ bunches = <<>> /\ step' = "results"
<1>1. /\ fetched # <<>> /\ r = Head(fetched) /\ fetched' = Tail(fetched)
      /\ media = "started" /\ step' = "results" /\ m_httpfetch_active' = m_httpfetch_active - 1
  BY DEF TakeResult
<1>2. MediaStarted /\ MediaTypes /\ EachFetchedOnce /\ MediaCounts /\ ServerIsAsked
  BY <1>1 DEF MediaInv, MediaStarted
<1>3. fetching \subseteq MediaFetches /\ fetched \in Seq(MediaResults)
  BY <1>2 DEF MediaTypes
<1>4. /\ r \in MediaResults /\ fetched' \in Seq(MediaResults)
      /\ ToSet(fetched) = ToSet(fetched') \union {r}
      /\ Once(fetched) => Once(fetched') /\ r \notin ToSet(fetched')
  BY <1>1, <1>3, TakeFirst
<1>5. r \in UnderWay /\ UnderWay = UnderWay' \union {r}
  BY <1>4 DEF UnderWay
<1>6. \A o \in UnderWay' : ~SameKey(o, r)
  <2> SUFFICES ASSUME NEW o \in UnderWay', SameKey(o, r) PROVE FALSE
    OBVIOUS
  <2>1. CASE o \in fetching
    BY <1>2, <1>4, <2>1 DEF EachFetchedOnce, SameKey
  <2>2. CASE o \in ToSet(fetched')
    <3>1. o \in ToSet(fetched) /\ r \in ToSet(fetched)
      BY <1>4, <2>2
    <3>2. o = r
      BY <1>2, <3>1 DEF EachFetchedOnce
    <3>3. QED
      BY <1>2, <1>4, <2>2, <3>2 DEF EachFetchedOnce
  <2>3. QED
    BY <2>1, <2>2 DEF UnderWay
<1>7. EachFetchedOnce'
  BY <1>2, <1>4 DEF EachFetchedOnce, SameKey
<1>8. /\ Len(fetched') = Len(fetched) - 1 /\ Len(fetched) \in Nat /\ Len(fetched) >= 1
  BY <1>1, <1>3
<1>9. Cardinality(fetching) \in Nat
  BY <1>3, MediaFinite, FS_Subset, FS_CardinalityType
<1>10. /\ m_httpfetch_active' = Cardinality(fetching') + Len(fetched')
       /\ m_httpfetch_active' \in Nat
  <2>1. m_httpfetch_active = Cardinality(fetching) + Len(fetched)
    BY <1>2 DEF MediaCounts
  <2>2. QED
    BY <1>1, <1>8, <1>9, <2>1
<1>11. asked_server = {} /\ bunches = <<>>
  BY <1>1, <1>2 DEF ServerIsAsked
<1>12. HashSetsOut \subseteq MediaFetches /\ IsFiniteSet(HashSetsOut)
  <2>1. HashSetsOut \subseteq MediaFetches
    BY DEF HashSetsOut
  <2>2. QED
    BY <2>1, MediaFinite, FS_Subset
<1>13. CASE r.file = HashSet
  <2>1. PICK k : k = Fetch(r.remote, HashSet)
    OBVIOUS
  <2>2. k \in MediaFetches /\ SameKey(r, k) /\ k.file = HashSet
    BY <1>4, <1>13, <2>1 DEF MediaFetches, MediaResults, Fetch, SameKey
  <2>3. \A o \in MediaFetches : SameKey(r, o) => o = k
    <3>1. \A o, h \in MediaFetches : SameKey(o, h) => o = h
      BY DEF MediaFetches, SameKey
    <3>2. \A o \in MediaFetches : SameKey(r, o) => SameKey(o, k)
      BY <2>2 DEF SameKey
    <3>3. QED
      BY <2>2, <3>1, <3>2
  <2>4. \A o : SameKey(o, k) => SameKey(o, r)
    BY <2>2 DEF SameKey
  <2>5. k \in HashSetsOut
    BY <1>5, <2>2 DEF HashSetsOut
  <2>6. HashSetsOut' = HashSetsOut \ {k}
    <3>1. ASSUME NEW h \in MediaFetches
          PROVE  h \in HashSetsOut' <=> h \in HashSetsOut /\ h # k
      <4>1. h \in HashSetsOut' <=> h.file = HashSet /\ \E o \in UnderWay' : SameKey(o, h)
        BY DEF HashSetsOut, SameKey
      <4>2. h \in HashSetsOut <=> h.file = HashSet /\ \E o \in UnderWay : SameKey(o, h)
        BY DEF HashSetsOut
      <4>3. CASE h = k
        BY <1>6, <2>4, <4>1, <4>3
      <4>4. CASE h # k
        <5>1. ~SameKey(r, h)
          BY <2>3, <4>4
        <5>2. QED
          BY <1>5, <4>1, <4>2, <4>4, <5>1
      <4>5. QED
        BY <4>3, <4>4
    <3>2. HashSetsOut' \subseteq MediaFetches
      BY DEF HashSetsOut
    <3>3. QED
      BY <1>12, <3>1, <3>2
  <2>7. /\ Cardinality(HashSetsOut') = Cardinality(HashSetsOut) - 1
        /\ Cardinality(HashSetsOut') \in Nat
    <3>1. PICK H : H = HashSetsOut
      OBVIOUS
    <3>2. IsFiniteSet(H \ {k}) /\ Cardinality(H \ {k}) = Cardinality(H) - 1
      BY <1>12, <2>5, <3>1, FS_RemoveElement
    <3>3. Cardinality(H \ {k}) \in Nat
      BY <3>2, FS_CardinalityType
    <3>4. QED
      BY <2>6, <3>1, <3>2, <3>3
  <2>8. QED
    BY <1>1, <1>2, <1>4, <1>5, <1>6, <1>7, <1>10, <1>11, <1>13, <2>7
<1>14. CASE r.file # HashSet
  <2>1. HashSetsOut' = HashSetsOut
    <3>1. ASSUME NEW h \in MediaFetches
          PROVE  h \in HashSetsOut' <=> h \in HashSetsOut
      <4>1. h \in HashSetsOut' <=> h.file = HashSet /\ \E o \in UnderWay' : SameKey(o, h)
        BY DEF HashSetsOut, SameKey
      <4>2. h \in HashSetsOut <=> h.file = HashSet /\ \E o \in UnderWay : SameKey(o, h)
        BY DEF HashSetsOut
      <4>3. h.file = HashSet => ~SameKey(r, h)
        BY <1>14 DEF SameKey
      <4>4. QED
        BY <1>5, <4>1, <4>2, <4>3
    <3>2. HashSetsOut' \subseteq MediaFetches
      BY DEF HashSetsOut
    <3>3. QED
      BY <1>12, <3>1, <3>2
  <2>2. Cardinality(HashSetsOut) \in Nat
    BY <1>12, FS_CardinalityType
  <2>3. QED
    BY <1>1, <1>2, <1>4, <1>5, <1>6, <1>7, <1>10, <1>11, <1>14, <2>1, <2>2
<1>15. QED
  BY <1>13, <1>14

LEMMA HashSetReceivedKeeps ==
  ASSUME MediaInv, NEW r \in ToSet(fetched), remoteHashSetReceived(r)
  PROVE  MediaInv'
<1>1. /\ TakeResult(r) /\ r.file = HashSet
      /\ m_outstanding_hash_sets' = m_outstanding_hash_sets - 1
      /\ available_remotes' = [f \in Files |->
            IF f > m_name_bound /\ f \notin received /\ f \in r.has
            THEN Append(available_remotes[f], r.remote) ELSE available_remotes[f]]
      /\ offered_by' = [f \in Files |-> IF f \in r.has THEN offered_by[f] \union {r.remote}
                                        ELSE offered_by[f]]
      /\ media' = media /\ received' = received /\ m_uncached_count' = m_uncached_count
      /\ m_uncached_received_count' = m_uncached_received_count
      /\ current_remote' = current_remote /\ m_name_bound' = m_name_bound /\ visited' = visited
      /\ changing_name_bound' = changing_name_bound /\ fetching' = fetching
      /\ asked_server' = asked_server /\ bunches' = bunches /\ tried' = tried
      /\ media = "started"
  BY DEF remoteHashSetReceived, TakeResult
<1>2. /\ MediaStarted /\ MediaTypes /\ r \in MediaResults /\ r \in UnderWay
      /\ fetched' \in Seq(MediaResults) /\ UnderWay = UnderWay' \union {r}
      /\ \A o \in UnderWay' : ~SameKey(o, r)
      /\ EachFetchedOnce'
      /\ m_httpfetch_active' = Cardinality(fetching') + Len(fetched')
      /\ m_httpfetch_active' = m_httpfetch_active - 1 /\ m_httpfetch_active' \in Nat
      /\ Cardinality(HashSetsOut') = Cardinality(HashSetsOut) - 1
      /\ Cardinality(HashSetsOut') \in Nat
      /\ asked_server = {} /\ bunches = <<>> /\ step' = "results"
  BY <1>1, ResultTaken
<1>3. MediaCounts /\ BoundIsSettled /\ OffersAreKept
  BY <1>2 DEF MediaStarted
<1>4. /\ m_outstanding_hash_sets' = Cardinality(HashSetsOut')
      /\ m_outstanding_hash_sets' \in Nat /\ m_outstanding_hash_sets # 0
  BY <1>1, <1>2, <1>3 DEF MediaCounts
<1>5. r.remote \in Remotes /\ r.has \subseteq Files
  BY <1>2 DEF MediaResults
<1>6. /\ available_remotes \in [Files -> Seq(Remotes)]
      /\ offered_by \in [Files -> SUBSET Remotes]
  BY <1>2 DEF MediaTypes
<1>7. ASSUME NEW f \in Files
      PROVE  /\ available_remotes'[f] \in Seq(Remotes) /\ offered_by'[f] \subseteq Remotes
             /\ ToSet(available_remotes[f]) \subseteq ToSet(available_remotes'[f])
             /\ f > m_name_bound /\ f \notin received /\ f \in r.has
                  => r.remote \in ToSet(available_remotes'[f])
             /\ ~(f > m_name_bound /\ f \notin received)
                  => available_remotes'[f] = available_remotes[f]
  <2>1. /\ Append(available_remotes[f], r.remote) \in Seq(Remotes)
        /\ ToSet(Append(available_remotes[f], r.remote))
             = ToSet(available_remotes[f]) \union {r.remote}
    BY <1>5, <1>6, PutLast
  <2>2. available_remotes'[f] = IF f > m_name_bound /\ f \notin received /\ f \in r.has
                                THEN Append(available_remotes[f], r.remote)
                                ELSE available_remotes[f]
    BY <1>1
  <2>3. offered_by'[f] \subseteq Remotes
    BY <1>1, <1>5, <1>6
  <2>4. available_remotes[f] \in Seq(Remotes)
    BY <1>6
  <2>5. QED
    BY <2>1, <2>2, <2>3, <2>4
<1>8. MediaTypes'
  <2>1. available_remotes' \in [Files -> Seq(Remotes)] /\ offered_by' \in [Files -> SUBSET Remotes]
    BY <1>1, <1>7
  <2>2. QED
    BY <1>1, <1>2, <1>4, <2>1 DEF MediaTypes
<1>9. ASSUME NEW f \in 1 .. m_name_bound PROVE f \in received /\ f \in Files
  <2>1. f \in received
    BY <1>3, <1>4 DEF BoundIsSettled
  <2>2. QED
    BY <1>2, <2>1 DEF MediaTypes
<1>10. OffersAreKept'
  <2> SUFFICES ASSUME NEW f \in Files \ received, NEW s \in offered_by'[f]
               PROVE  s \in tried[f] \union {current_remote[f]} \union ToSet(available_remotes'[f])
    BY <1>1 DEF OffersAreKept
  <2>1. CASE s \in offered_by[f]
    BY <1>3, <1>7, <2>1 DEF OffersAreKept
  <2>2. CASE s \notin offered_by[f]
    <3>1. s = r.remote /\ f \in r.has
      BY <1>1, <2>2
    <3>2. f > m_name_bound
      <4>1. f \notin 1 .. m_name_bound
        BY <1>9
      <4>2. f \in 1 .. MaxFiles /\ m_name_bound \in Nat /\ MaxFiles \in Nat
        BY <1>2, MediaFinite DEF MediaTypes, Files
      <4>3. QED
        BY <4>1, <4>2
    <3>3. QED
      BY <1>7, <3>1, <3>2
  <2>3. QED
    BY <2>1, <2>2
<1>11. MediaStarted'
  <2>1. FilesFetched' = FilesFetched
    BY <1>1 DEF FilesFetched
  <2>2. MediaCounts'
    <3>1. m_httpfetch_active' = Cardinality(FilesFetched') + m_outstanding_hash_sets'
      <4>1. Cardinality(FilesFetched) \in Nat
        <5>1. FilesFetched \subseteq Files
          BY DEF FilesFetched
        <5>2. QED
          BY <5>1, MediaFinite, FS_Subset, FS_CardinalityType
      <4>2. m_httpfetch_active = Cardinality(FilesFetched) + m_outstanding_hash_sets
        BY <1>3 DEF MediaCounts
      <4>3. m_outstanding_hash_sets \in Nat
        BY <1>2 DEF MediaTypes
      <4>4. QED
        BY <1>1, <1>2, <2>1, <4>1, <4>2, <4>3
    <3>2. \A o \in UnderWay' : o.file # HashSet =>
            o.file \notin received' /\ current_remote'[o.file] = o.remote
      BY <1>1, <1>2, <1>3 DEF MediaCounts
    <3>3. QED
      BY <1>2, <1>4, <3>1, <3>2 DEF MediaCounts
  <2>3. BoundIsSettled'
    BY <1>1, <1>9 DEF BoundIsSettled
  <2>4. VisitedAreBusy'
    BY <1>2 DEF VisitedAreBusy
  <2>5. QED
    BY <1>2, <1>10, <2>1, <2>2, <2>3, <2>4 DEF MediaStarted
<1>12. ServerIsAsked' /\ RemotesFirst'
  BY <1>1, <1>2 DEF ServerIsAsked, RemotesFirst
<1>13. QED
  BY <1>1, <1>8, <1>11, <1>12 DEF MediaInv

LEMMA FileReceivedKeeps ==
  ASSUME MediaInv, NEW r \in ToSet(fetched), remoteMediaReceived(r)
  PROVE  MediaInv'
<1> DEFINE good == r.file \in r.has
<1>1. /\ TakeResult(r) /\ r.file # HashSet
      /\ current_remote' = [current_remote EXCEPT ![r.file] = NoRemote]
      /\ IF good
         THEN /\ received' = received \union {r.file} /\ tried' = tried
              /\ m_uncached_received_count' = m_uncached_received_count + 1
         ELSE /\ tried' = [tried EXCEPT ![r.file] = @ \union {r.remote}]
              /\ received' = received /\ m_uncached_received_count' = m_uncached_received_count
      /\ media' = media /\ m_uncached_count' = m_uncached_count
      /\ available_remotes' = available_remotes
      /\ m_outstanding_hash_sets' = m_outstanding_hash_sets
      /\ m_name_bound' = m_name_bound /\ visited' = visited
      /\ changing_name_bound' = changing_name_bound /\ fetching' = fetching
      /\ asked_server' = asked_server /\ bunches' = bunches /\ offered_by' = offered_by
      /\ media = "started"
  BY DEF remoteMediaReceived, TakeResult
<1>2. /\ MediaStarted /\ MediaTypes /\ r \in MediaResults /\ r \in UnderWay
      /\ fetched' \in Seq(MediaResults) /\ UnderWay = UnderWay' \union {r}
      /\ \A o \in UnderWay' : ~SameKey(o, r)
      /\ EachFetchedOnce'
      /\ m_httpfetch_active' = Cardinality(fetching') + Len(fetched')
      /\ m_httpfetch_active' = m_httpfetch_active - 1 /\ m_httpfetch_active' \in Nat
      /\ Cardinality(HashSetsOut') = Cardinality(HashSetsOut)
      /\ asked_server = {} /\ bunches = <<>> /\ step' = "results"
  BY <1>1, ResultTaken
<1> HIDE DEF good
<1>3. MediaCounts /\ BoundIsSettled /\ OffersAreKept
  BY <1>2 DEF MediaStarted
<1>4. /\ r.file \in Files /\ r.remote \in Remotes
      /\ r.file \notin received /\ current_remote[r.file] = r.remote
  BY <1>1, <1>2, <1>3 DEF MediaResults, MediaCounts
<1>5. /\ current_remote \in [Files -> Remotes \union {NoRemote}] /\ received \subseteq Files
      /\ tried \in [Files -> SUBSET Remotes]
  BY <1>2 DEF MediaTypes
<1>6. /\ current_remote'[r.file] = NoRemote
      /\ \A f \in Files \ {r.file} : current_remote'[f] = current_remote[f]
      /\ \A f \in Files : current_remote'[f] = current_remote[f] \/ current_remote'[f] = NoRemote
  BY <1>1, <1>4, <1>5
<1>7. /\ received' \subseteq Files /\ received \subseteq received'
      /\ m_uncached_received_count' \in Nat
      /\ m_uncached_received_count' - m_uncached_count' = Cardinality(received') - MaxFiles
  <2>1. IsFiniteSet(received) /\ Cardinality(received) \in Nat
    BY <1>5, MediaFinite, FS_Subset, FS_CardinalityType
  <2>2. /\ m_uncached_received_count - m_uncached_count = Cardinality(received) - MaxFiles
        /\ m_uncached_received_count \in Nat /\ m_uncached_count \in Nat /\ MaxFiles \in Nat
    BY <1>1, <1>2, MediaFinite DEF MediaInv, MediaTypes
  <2>3. Cardinality(received \union {r.file}) = Cardinality(received) + 1
    BY <1>4, <2>1, FS_AddElement
  <2>4. CASE good
    <3>1. /\ received' = received \union {r.file}
          /\ m_uncached_received_count' = m_uncached_received_count + 1
          /\ m_uncached_count' = m_uncached_count
      BY <1>1, <2>4
    <3>2. Cardinality(received') = Cardinality(received) + 1
      BY <2>3, <3>1
    <3>3. QED
      BY <1>4, <1>5, <2>1, <2>2, <3>1, <3>2
  <2>5. CASE ~good
    BY <1>1, <1>5, <2>2, <2>5
  <2>6. QED
    BY <2>4, <2>5
<1>8. /\ tried' \in [Files -> SUBSET Remotes]
      /\ \A f \in Files : tried[f] \subseteq tried'[f]
      /\ r.file \in received' \/ r.remote \in tried'[r.file]
  <2>1. CASE good
    BY <1>1, <1>5, <2>1
  <2>2. CASE ~good
    BY <1>1, <1>4, <1>5, <2>2
  <2>3. QED
    BY <2>1, <2>2
<1>9. MediaTypes'
  <2>1. current_remote' \in [Files -> Remotes \union {NoRemote}]
    BY <1>1, <1>5
  <2>2. QED
    BY <1>1, <1>2, <1>7, <1>8, <2>1 DEF MediaTypes
<1>10. /\ FilesFetched' = FilesFetched \ {r.file} /\ r.file \in FilesFetched
       /\ IsFiniteSet(FilesFetched)
  <2>1. r.remote # NoRemote
    BY <1>4, MediaFinite
  <2>2. FilesFetched \subseteq Files
    BY DEF FilesFetched
  <2>3. QED
    BY <1>4, <1>6, <2>1, <2>2, MediaFinite, FS_Subset DEF FilesFetched
<1>11. /\ Cardinality(FilesFetched') = Cardinality(FilesFetched) - 1
       /\ Cardinality(FilesFetched') \in Nat /\ Cardinality(FilesFetched) \in Nat
  <2>1. PICK F : F = FilesFetched
    OBVIOUS
  <2>2. IsFiniteSet(F \ {r.file}) /\ Cardinality(F \ {r.file}) = Cardinality(F) - 1
    BY <1>10, <2>1, FS_RemoveElement
  <2>3. QED
    BY <1>10, <2>1, <2>2, FS_CardinalityType
<1>12. MediaCounts'
  <2>1. ASSUME NEW o \in UnderWay', o.file # HashSet
        PROVE  o.file \notin received' /\ current_remote'[o.file] = o.remote
    <3>1. o \in UnderWay /\ o.file \notin received /\ current_remote[o.file] = o.remote
      BY <1>2, <1>3, <2>1 DEF MediaCounts
    <3>2. o.file # r.file
      BY <1>2, <1>4, <3>1 DEF SameKey
    <3>3. o.file \in Files
      <4>1. o \in fetching \/ o \in ToSet(fetched)
        BY <3>1 DEF UnderWay
      <4>2. ToSet(fetched) \subseteq MediaResults
        BY <1>2, QueueSet DEF MediaTypes
      <4>3. QED
        BY <1>2, <2>1, <4>1, <4>2 DEF MediaTypes, MediaFetches, MediaResults
    <3>4. o.file \notin received'
      BY <1>1, <3>1, <3>2
    <3>5. QED
      BY <1>6, <3>1, <3>2, <3>3, <3>4
  <2>2. m_httpfetch_active' = Cardinality(FilesFetched') + m_outstanding_hash_sets'
    <3>1. /\ m_httpfetch_active = Cardinality(FilesFetched) + m_outstanding_hash_sets
          /\ m_outstanding_hash_sets \in Nat
      BY <1>2, <1>3 DEF MediaCounts, MediaTypes
    <3>2. QED
      BY <1>1, <1>2, <1>11, <3>1
  <2>3. m_outstanding_hash_sets' = Cardinality(HashSetsOut')
    BY <1>1, <1>2, <1>3 DEF MediaCounts
  <2>4. QED
    BY <1>2, <2>1, <2>2, <2>3 DEF MediaCounts
<1>13. BoundIsSettled'
  <2> SUFFICES ASSUME NEW f \in 1 .. m_name_bound
               PROVE  f \in received' \/ (/\ available_remotes'[f] = <<>>
                                          /\ current_remote'[f] = NoRemote
                                          /\ m_outstanding_hash_sets' = 0)
    BY <1>1 DEF BoundIsSettled
  <2>1. f \in Files
    BY <1>2, MediaFinite DEF MediaTypes, Files
  <2>2. QED
    BY <1>1, <1>3, <1>6, <1>7, <2>1 DEF BoundIsSettled
<1>14. OffersAreKept'
  <2> SUFFICES ASSUME NEW f \in Files \ received', NEW s \in offered_by[f]
               PROVE  s \in tried'[f] \union {current_remote'[f]} \union ToSet(available_remotes[f])
    BY <1>1 DEF OffersAreKept
  <2>1. f \notin received
    BY <1>7
  <2>2. s \in tried[f] \union {current_remote[f]} \union ToSet(available_remotes[f])
    BY <1>3, <2>1 DEF OffersAreKept
  <2>3. CASE f = r.file
    BY <1>4, <1>8, <2>2, <2>3
  <2>4. CASE f # r.file
    BY <1>6, <1>8, <2>2, <2>4
  <2>5. QED
    BY <2>3, <2>4
<1>15. MediaStarted'
  <2>1. VisitedAreBusy'
    BY <1>2 DEF VisitedAreBusy
  <2>2. Cardinality(FilesFetched') <= m_httpfetch_active_limit
    <3>1. Cardinality(FilesFetched) <= m_httpfetch_active_limit
      BY <1>2 DEF MediaStarted
    <3>2. QED
      BY <1>11, <3>1, MediaAssumption
  <2>3. QED
    BY <1>2, <1>12, <1>13, <1>14, <2>1, <2>2 DEF MediaStarted
<1>16. ServerIsAsked' /\ RemotesFirst'
  BY <1>1, <1>2 DEF ServerIsAsked, RemotesFirst
<1>17. QED
  BY <1>1, <1>7, <1>9, <1>15, <1>16 DEF MediaInv

(* The loop over the files begins, after all results.                      *)
LEMMA TransfersStart ==
  ASSUME MediaInv, startRemoteMediaTransfers
  PROVE  MediaInv'
<1>1. /\ step = "results" /\ step' = "transfers" /\ visited' = m_name_bound
      /\ changing_name_bound' = TRUE
      /\ media' = media /\ received' = received /\ m_uncached_count' = m_uncached_count
      /\ m_uncached_received_count' = m_uncached_received_count
      /\ current_remote' = current_remote /\ available_remotes' = available_remotes
      /\ m_outstanding_hash_sets' = m_outstanding_hash_sets
      /\ m_httpfetch_active' = m_httpfetch_active /\ m_name_bound' = m_name_bound
      /\ fetching' = fetching /\ fetched' = fetched
      /\ asked_server' = asked_server /\ bunches' = bunches /\ offered_by' = offered_by
      /\ tried' = tried
  BY DEF startRemoteMediaTransfers
<1>2. media = "started" /\ MediaStarted /\ MediaTypes /\ asked_server = {} /\ bunches = <<>>
  BY <1>1 DEF MediaInv, MediaInit, ServerIsAsked, MediaTypes
<1>3. MediaTypes'
  BY <1>1, <1>2 DEF MediaTypes
<1>4. /\ UnderWay' = UnderWay /\ FilesFetched' = FilesFetched
      /\ HashSetsOut' = HashSetsOut
  BY <1>1 DEF UnderWay, FilesFetched, HashSetsOut, SameKey
<1>5. MediaStarted'
  <2>1. MediaCounts'
    BY <1>1, <1>2, <1>4 DEF MediaStarted, MediaCounts
  <2>2. EachFetchedOnce' /\ BoundIsSettled' /\ OffersAreKept'
    BY <1>1, <1>2 DEF MediaStarted, EachFetchedOnce, BoundIsSettled, OffersAreKept, SameKey
  <2>3. VisitedAreBusy'
    BY <1>1, <1>2 DEF MediaStarted, MediaTypes, BoundIsSettled, VisitedAreBusy
  <2>4. QED
    BY <1>2, <1>4, <2>1, <2>2, <2>3 DEF MediaStarted
<1>6. ServerIsAsked' /\ RemotesFirst'
  BY <1>1, <1>2 DEF ServerIsAsked, RemotesFirst
<1>7. QED
  BY <1>1, <1>2, <1>3, <1>5, <1>6 DEF MediaInv

LEMMA ServerSelected ==
  ASSUME NEW f \in Files, available_remotes[f] \in Seq(Remotes), available_remotes[f] # <<>>
  PROVE  selectRemoteServer(f) \in 1 .. Len(available_remotes[f])
<1> DEFINE s == available_remotes[f]
           Count(n) == active_count(s[n])
           L == 1 .. Len(s)
           C == {Count(n) : n \in L}
           least == CHOOSE k \in C : \A j \in C : k <= j
           B == {n \in L : Count(n) = least}
           first == CHOOSE k \in B : \A j \in B : k <= j
<1>1. s \in Seq(Remotes) /\ s # <<>>
  OBVIOUS
<1> HIDE DEF s
<1>2. DOMAIN s = L /\ L # {} /\ L \subseteq Nat
  <2>1. DOMAIN s = 1 .. Len(s) /\ Len(s) \in Nat /\ Len(s) # 0
    BY <1>1
  <2>2. 1 \in 1 .. Len(s)
    BY <2>1
  <2>3. QED
    BY <2>1, <2>2
<1>3. \A n \in L : Count(n) \in Nat
  <2> SUFFICES ASSUME NEW n \in L PROVE Count(n) \in Nat
    OBVIOUS
  <2>1. {g \in Files : current_remote[g] = s[n]} \subseteq Files
    OBVIOUS
  <2>2. QED
    BY <2>1, MediaFinite, FS_Subset, FS_CardinalityType DEF active_count
<1> HIDE DEF Count
<1>4. C \subseteq Nat /\ C # {}
  BY <1>2, <1>3
<1>5. least \in C /\ \A j \in C : least <= j
  <2> HIDE DEF C
  <2>1. QED
    BY <1>4, LeastIsThere
<1>6. B # {} /\ B \subseteq Nat
  BY <1>2, <1>5
<1>7. first \in B /\ \A j \in B : first <= j
  <2> HIDE DEF B
  <2>1. QED
    BY <1>6, LeastIsThere
<1>8. PICK i \in L : i = first /\ Count(i) = least
  BY <1>7
<1> HIDE DEF least, first, C
<1>9. \A k \in L : Count(i) <= Count(k)
  BY <1>5, <1>8 DEF C
<1>10. \A k \in L : k < i => Count(i) < Count(k)
  <2> SUFFICES ASSUME NEW k \in L, k < i PROVE Count(i) < Count(k)
    OBVIOUS
  <2>1. Count(k) # least
    <3>1. CASE Count(k) = least
      <4>1. i <= k
        BY <1>7, <1>8, <3>1
      <4>2. QED
        BY <1>2, <4>1
    <3>2. QED
      BY <3>1
  <2>2. QED
    BY <1>3, <1>8, <1>9, <2>1
<1>11. \E n \in L : \A k \in L : Count(n) <= Count(k) /\ (k < n => Count(n) < Count(k))
  BY <1>9, <1>10
<1>12. selectRemoteServer(f) = CHOOSE n \in L : \A k \in L : /\ Count(n) <= Count(k)
                                                             /\ k < n => Count(n) < Count(k)
  BY <1>2 DEF selectRemoteServer, Count, s
<1>13. selectRemoteServer(f) \in L
  BY <1>11, <1>12
<1>14. QED
  BY <1>13 DEF s

(* A file is visited: the transfer from the server selected is started,    *)
(* and the server not tried again.                                         *)
LEMMA VisitKeeps ==
  ASSUME MediaInv, NEW f \in Files, VisitFile(f)
  PROVE  MediaInv'
<1> DEFINE goes == f \notin received /\ current_remote[f] = NoRemote /\ available_remotes[f] # <<>>
           n == selectRemoteServer(f)
           r == available_remotes[f][n]
           decided == f \in received
                      \/ (current_remote'[f] = NoRemote /\ m_outstanding_hash_sets = 0)
<1>1. /\ step = "transfers" /\ f = visited + 1 /\ m_httpfetch_active < m_httpfetch_active_limit
      /\ visited' = f
      /\ IF goes
         THEN /\ available_remotes' = [available_remotes EXCEPT ![f] = RemoveAt(@, n)]
              /\ current_remote' = [current_remote EXCEPT ![f] = r]
              /\ m_httpfetch_active' = m_httpfetch_active + 1
              /\ fetching' = fetching \union {Fetch(r, f)}
         ELSE /\ available_remotes' = available_remotes /\ current_remote' = current_remote
              /\ m_httpfetch_active' = m_httpfetch_active /\ fetching' = fetching
      /\ changing_name_bound' = (changing_name_bound /\ decided)
      /\ m_name_bound' = IF decided /\ changing_name_bound THEN f ELSE m_name_bound
      /\ media' = media /\ received' = received /\ m_uncached_count' = m_uncached_count
      /\ m_uncached_received_count' = m_uncached_received_count
      /\ m_outstanding_hash_sets' = m_outstanding_hash_sets /\ step' = step
      /\ fetched' = fetched /\ asked_server' = asked_server /\ bunches' = bunches
      /\ offered_by' = offered_by /\ tried' = tried
  BY DEF VisitFile
<1>2. media = "started" /\ MediaStarted /\ MediaTypes /\ asked_server = {} /\ bunches = <<>>
  BY <1>1 DEF MediaInv, MediaInit, ServerIsAsked, MediaTypes
<1>3. /\ MediaCounts /\ EachFetchedOnce /\ BoundIsSettled /\ VisitedAreBusy /\ OffersAreKept
  BY <1>2 DEF MediaStarted
<1>4. /\ current_remote \in [Files -> Remotes \union {NoRemote}]
      /\ available_remotes \in [Files -> Seq(Remotes)]
      /\ fetching \subseteq MediaFetches /\ m_httpfetch_active \in Nat
      /\ visited \in 0 .. MaxFiles /\ m_name_bound \in 0 .. MaxFiles /\ MaxFiles \in Nat
      /\ changing_name_bound \in BOOLEAN
      /\ m_outstanding_hash_sets \in Nat
  BY <1>2, MediaFinite DEF MediaTypes
<1>5. FilesFetched \subseteq Files /\ IsFiniteSet(FilesFetched) /\ Cardinality(FilesFetched) \in Nat
  <2>1. FilesFetched \subseteq Files
    BY DEF FilesFetched
  <2>2. QED
    BY <2>1, MediaFinite, FS_Subset, FS_CardinalityType
<1>6. /\ m_httpfetch_active = Cardinality(fetching) + Len(fetched)
      /\ m_httpfetch_active = Cardinality(FilesFetched) + m_outstanding_hash_sets
      /\ m_outstanding_hash_sets = Cardinality(HashSetsOut)
      /\ \A o \in UnderWay : o.file # HashSet =>
           o.file \notin received /\ current_remote[o.file] = o.remote
  BY <1>3 DEF MediaCounts
<1>7. /\ IsFiniteSet(fetching) /\ Cardinality(fetching) \in Nat /\ Len(fetched) \in Nat
  <2>1. IsFiniteSet(fetching)
    BY <1>4, MediaFinite, FS_Subset
  <2>2. fetched \in Seq(MediaResults)
    BY <1>2 DEF MediaTypes
  <2>3. QED
    BY <2>1, <2>2, FS_CardinalityType
<1> HIDE DEF goes, decided
<1>8. CASE goes
  <2>1. PICK i : i = n
    OBVIOUS
  <2>2. PICK s \in Seq(Remotes) : s = available_remotes[f]
    BY <1>4
  <2>3. i \in 1 .. Len(s) /\ s # <<>> /\ f \notin received /\ current_remote[f] = NoRemote
    BY <1>8, <2>1, <2>2, ServerSelected DEF goes
  <2>4. PICK e \in Remotes : e = s[i]
    BY <2>3
  <2>5. /\ RemoveAt(s, i) \in Seq(Remotes)
        /\ ToSet(RemoveAt(s, i)) = {s[k] : k \in 1 .. Len(s) \ {i}}
    BY <2>3, OnePlaceOut
  <2>6. ToSet(s) \subseteq ToSet(RemoveAt(s, i)) \union {e}
    <3>1. ToSet(s) = {s[k] : k \in 1 .. Len(s)}
      BY QueueSet
    <3>2. QED
      BY <2>4, <2>5, <3>1
  <2>7. r = e /\ e # NoRemote
    BY <2>1, <2>2, <2>4, MediaFinite
  <2> HIDE DEF n, r
  <2>8. /\ available_remotes' = [available_remotes EXCEPT ![f] = RemoveAt(s, i)]
        /\ current_remote' = [current_remote EXCEPT ![f] = e]
        /\ m_httpfetch_active' = m_httpfetch_active + 1
        /\ fetching' = fetching \union {Fetch(e, f)}
    BY <1>1, <1>8, <2>1, <2>2, <2>7
  <2>9. /\ available_remotes' \in [Files -> Seq(Remotes)]
        /\ available_remotes'[f] = RemoveAt(s, i)
        /\ \A g \in Files \ {f} : available_remotes'[g] = available_remotes[g]
    BY <1>4, <2>5, <2>8
  <2>10. /\ current_remote' \in [Files -> Remotes \union {NoRemote}] /\ current_remote'[f] = e
         /\ \A g \in Files \ {f} : current_remote'[g] = current_remote[g]
    BY <1>4, <2>8
  <2>11. PICK k \in MediaFetches : k = Fetch(e, f)
    BY DEF MediaFetches, Fetch
  <2>12. k.remote = e /\ k.file = f /\ f # HashSet
    BY <2>11, MediaFinite DEF Fetch
  <2>13. \A o \in UnderWay : o.file # f
    <3> SUFFICES ASSUME NEW o \in UnderWay, o.file = f PROVE FALSE
      OBVIOUS
    <3>1. current_remote[f] = o.remote
      BY <1>6, <2>12
    <3>2. o.remote \in Remotes
      <4>1. ToSet(fetched) \subseteq MediaResults
        BY <1>2, QueueSet DEF MediaTypes
      <4>2. QED
        BY <1>4, <4>1 DEF UnderWay, MediaFetches, MediaResults
    <3>3. QED
      BY <2>3, <3>1, <3>2, MediaFinite
  <2>14. UnderWay' = UnderWay \union {k}
    BY <1>1, <2>8, <2>11 DEF UnderWay
  <2>15. Cardinality(fetching') = Cardinality(fetching) + 1
    <3>1. k \notin fetching
      BY <2>12, <2>13 DEF UnderWay
    <3>2. QED
      BY <1>7, <2>8, <2>11, <3>1, FS_AddElement
  <2>16. HashSetsOut' = HashSetsOut
    <3>1. \A h \in MediaFetches : h.file = HashSet => ~SameKey(k, h)
      BY <2>12 DEF SameKey
    <3>2. HashSetsOut' = {h \in MediaFetches : h.file = HashSet /\ \E o \in UnderWay' : SameKey(o, h)}
      BY DEF HashSetsOut, SameKey
    <3>3. QED
      BY <2>14, <3>1, <3>2 DEF HashSetsOut
  <2>17. Cardinality(FilesFetched') = Cardinality(FilesFetched) + 1
    <3>1. FilesFetched' = FilesFetched \union {f} /\ f \notin FilesFetched
      BY <2>3, <2>7, <2>10 DEF FilesFetched
    <3>2. PICK F : F = FilesFetched
      OBVIOUS
    <3>3. Cardinality(F \union {f}) = Cardinality(F) + 1
      BY <1>5, <3>1, <3>2, FS_AddElement
    <3>4. QED
      BY <3>1, <3>2, <3>3
  <2>18. ~decided
    BY <2>3, <2>7, <2>10 DEF decided
  <2>19. m_name_bound' = m_name_bound /\ changing_name_bound' = FALSE
    BY <1>1, <2>18
  <2>20. MediaTypes'
    <3>1. fetching' \subseteq MediaFetches /\ m_httpfetch_active' \in Nat /\ visited' \in 0 .. MaxFiles
      BY <1>1, <1>4, <2>8, <2>11 DEF Files
    <3>2. QED
      BY <1>1, <1>2, <2>9, <2>10, <2>19, <3>1 DEF MediaTypes
  <2>21. MediaCounts'
    <3>1. m_httpfetch_active' = Cardinality(fetching') + Len(fetched')
      BY <1>1, <1>6, <1>7, <2>8, <2>15
    <3>2. m_httpfetch_active' = Cardinality(FilesFetched') + m_outstanding_hash_sets'
      BY <1>1, <1>4, <1>5, <1>6, <2>8, <2>17
    <3>3. ASSUME NEW o \in UnderWay', o.file # HashSet
          PROVE  o.file \notin received' /\ current_remote'[o.file] = o.remote
      <4>1. CASE o = k
        BY <1>1, <2>3, <2>10, <2>12, <4>1
      <4>2. CASE o \in UnderWay
        <5>1. o.file \notin received /\ current_remote[o.file] = o.remote /\ o.file # f
          BY <1>6, <2>13, <3>3, <4>2
        <5>2. o.file \in Files
          <6>1. ToSet(fetched) \subseteq MediaResults
            BY <1>2, QueueSet DEF MediaTypes
          <6>2. QED
            BY <1>4, <3>3, <4>2, <6>1 DEF UnderWay, MediaFetches, MediaResults
        <5>3. QED
          BY <1>1, <2>10, <5>1, <5>2
      <4>3. QED
        BY <2>14, <4>1, <4>2
    <3>4. QED
      BY <1>1, <1>6, <2>16, <3>1, <3>2, <3>3 DEF MediaCounts
  <2>22. EachFetchedOnce'
    <3>1. \A o \in ToSet(fetched) : ~SameKey(o, k)
      BY <2>12, <2>13 DEF UnderWay, SameKey
    <3>2. QED
      BY <1>1, <1>3, <2>8, <2>11, <3>1 DEF EachFetchedOnce, SameKey
  <2>23. BoundIsSettled'
    <3> SUFFICES ASSUME NEW g \in 1 .. m_name_bound
                 PROVE  g \in received \/ (/\ available_remotes'[g] = <<>>
                                           /\ current_remote'[g] = NoRemote
                                           /\ m_outstanding_hash_sets = 0)
      BY <1>1, <2>19 DEF BoundIsSettled
    <3>1. g \in Files
      BY <1>4 DEF Files
    <3>2. g \in received \/ (/\ available_remotes[g] = <<>> /\ current_remote[g] = NoRemote
                             /\ m_outstanding_hash_sets = 0)
      BY <1>3 DEF BoundIsSettled
    <3>3. g # f \/ g \in received
      BY <2>2, <2>3, <3>2
    <3>4. QED
      BY <2>3, <2>9, <2>10, <3>1, <3>2, <3>3
  <2>24. VisitedAreBusy'
    <3>1. m_name_bound' <= visited'
      BY <1>1, <1>3, <1>4, <2>19 DEF VisitedAreBusy
    <3>2. ASSUME NEW g \in 1 .. f
          PROVE  g \in received \/ current_remote'[g] # NoRemote \/ available_remotes'[g] = <<>>
      <4>1. CASE g = f
        BY <2>7, <2>10, <4>1
      <4>2. CASE g # f
        <5>1. g \in 1 .. visited /\ g \in Files
          BY <1>1, <1>4, <4>2 DEF Files
        <5>2. QED
          BY <1>1, <1>3, <2>9, <2>10, <4>2, <5>1 DEF VisitedAreBusy
      <4>3. QED
        BY <4>1, <4>2
    <3>3. QED
      BY <1>1, <2>19, <3>1, <3>2 DEF VisitedAreBusy
  <2>25. OffersAreKept'
    <3> SUFFICES ASSUME NEW g \in Files \ received, NEW x \in offered_by[g]
                 PROVE  x \in tried[g] \union {current_remote'[g]} \union ToSet(available_remotes'[g])
      BY <1>1 DEF OffersAreKept
    <3>1. x \in tried[g] \union {current_remote[g]} \union ToSet(available_remotes[g])
      BY <1>3 DEF OffersAreKept
    <3>2. CASE g # f
      BY <2>9, <2>10, <3>1, <3>2
    <3>3. CASE g = f
      <4>1. x # NoRemote
        BY <1>2, MediaFinite DEF MediaTypes
      <4>2. x \in tried[f] \/ x \in ToSet(s)
        BY <2>2, <2>3, <3>1, <3>3, <4>1
      <4>3. QED
        BY <2>6, <2>9, <2>10, <3>3, <4>2
    <3>4. QED
      BY <3>2, <3>3
  <2>26. Cardinality(FilesFetched') <= m_httpfetch_active_limit
    <3>1. Cardinality(FilesFetched) <= m_httpfetch_active
      BY <1>4, <1>5, <1>6
    <3>2. m_httpfetch_active + 1 <= m_httpfetch_active_limit
      BY <1>1, <1>4, MediaAssumption
    <3>3. QED
      BY <1>4, <1>5, <2>17, <3>1, <3>2, MediaAssumption
  <2>27. ServerIsAsked' /\ RemotesFirst'
    BY <1>1, <1>2 DEF ServerIsAsked, RemotesFirst
  <2>28. QED
    BY <1>1, <1>2, <2>20, <2>21, <2>22, <2>23, <2>24, <2>25, <2>26, <2>27
       DEF MediaInv, MediaStarted
<1>9. CASE ~goes
  <2>1. /\ available_remotes' = available_remotes /\ current_remote' = current_remote
        /\ m_httpfetch_active' = m_httpfetch_active /\ fetching' = fetching
    BY <1>1, <1>9
  <2>2. f \in received \/ current_remote[f] # NoRemote \/ available_remotes[f] = <<>>
    BY <1>9 DEF goes
  <2>3. decided <=> f \in received \/ (current_remote[f] = NoRemote /\ m_outstanding_hash_sets = 0)
    BY <2>1 DEF decided
  <2>4. m_name_bound' \in 0 .. MaxFiles /\ changing_name_bound' \in BOOLEAN /\ visited' \in 0 .. MaxFiles
    <3>1. f \in 0 .. MaxFiles
      BY <1>4 DEF Files
    <3>2. (changing_name_bound /\ decided) \in BOOLEAN
      OBVIOUS
    <3>3. QED
      BY <1>1, <1>4, <3>1, <3>2
  <2>5. MediaTypes'
    BY <1>1, <1>2, <2>1, <2>4 DEF MediaTypes
  <2>6. /\ UnderWay' = UnderWay /\ FilesFetched' = FilesFetched /\ HashSetsOut' = HashSetsOut
    BY <1>1, <2>1 DEF UnderWay, FilesFetched, HashSetsOut, SameKey
  <2>7. MediaCounts'
    BY <1>1, <1>3, <2>1, <2>6 DEF MediaCounts
  <2>8. EachFetchedOnce' /\ OffersAreKept'
    BY <1>1, <1>3, <2>1 DEF EachFetchedOnce, OffersAreKept, SameKey
  <2>9. /\ m_name_bound <= visited /\ (changing_name_bound => m_name_bound = visited)
        /\ \A g \in 1 .. visited : \/ g \in received \/ current_remote[g] # NoRemote
                                   \/ available_remotes[g] = <<>>
    BY <1>1, <1>3 DEF VisitedAreBusy
  <2>10. VisitedAreBusy'
    <3>1. m_name_bound' <= f /\ (changing_name_bound' => m_name_bound' = f)
      <4>1. CASE decided /\ changing_name_bound
        BY <1>1, <1>4, <4>1
      <4>2. CASE ~(decided /\ changing_name_bound)
        <5>1. m_name_bound' = m_name_bound /\ ~changing_name_bound'
          BY <1>1, <4>2
        <5>2. m_name_bound <= f
          BY <1>1, <1>4, <2>9
        <5>3. QED
          BY <5>1, <5>2
      <4>3. QED
        BY <4>1, <4>2
    <3>2. ASSUME NEW g \in 1 .. f
          PROVE  g \in received \/ current_remote[g] # NoRemote \/ available_remotes[g] = <<>>
      <4>1. g = f \/ g \in 1 .. visited
        BY <1>1, <1>4
      <4>2. QED
        BY <2>2, <2>9, <4>1
    <3>3. QED
      BY <1>1, <2>1, <3>1, <3>2 DEF VisitedAreBusy
  <2>11. BoundIsSettled'
    <3> SUFFICES ASSUME NEW g \in 1 .. m_name_bound'
                 PROVE  g \in received \/ (/\ available_remotes[g] = <<>>
                                           /\ current_remote[g] = NoRemote
                                           /\ m_outstanding_hash_sets = 0)
      BY <1>1, <2>1 DEF BoundIsSettled
    <3>1. CASE g \in 1 .. m_name_bound
      BY <1>3, <3>1 DEF BoundIsSettled
    <3>2. CASE g \notin 1 .. m_name_bound
      <4>1. decided /\ changing_name_bound /\ m_name_bound' = f
        BY <1>1, <3>2
      <4>2. g = f
        <5>1. m_name_bound = visited
          BY <2>9, <4>1
        <5>2. QED
          BY <1>1, <1>4, <3>2, <4>1, <5>1
      <4>3. QED
        BY <2>2, <2>3, <4>1, <4>2
    <3>3. QED
      BY <3>1, <3>2
  <2>12. ServerIsAsked' /\ RemotesFirst'
    BY <1>1, <1>2 DEF ServerIsAsked, RemotesFirst
  <2>13. Cardinality(FilesFetched') <= m_httpfetch_active_limit
    BY <1>2, <2>6 DEF MediaStarted
  <2>14. QED
    BY <1>1, <1>2, <2>5, <2>7, <2>8, <2>10, <2>11, <2>12, <2>13 DEF MediaInv, MediaStarted
<1>10. QED
  BY <1>8, <1>9

(* What does not touch the fetches and the books of them.                  *)
LEMMA MediaSame ==
  ASSUME MediaStarted,
         UNCHANGED <<current_remote, available_remotes, m_outstanding_hash_sets, m_httpfetch_active,
                     m_name_bound, fetching, fetched, received, offered_by, tried>>,
         step' # "transfers"
  PROVE  MediaStarted'
<1>1. /\ UnderWay' = UnderWay /\ FilesFetched' = FilesFetched /\ HashSetsOut' = HashSetsOut
  BY DEF UnderWay, FilesFetched, HashSetsOut, SameKey
<1>2. MediaCounts'
  BY <1>1 DEF MediaStarted, MediaCounts
<1>3. EachFetchedOnce' /\ BoundIsSettled' /\ OffersAreKept' /\ VisitedAreBusy'
  BY DEF MediaStarted, EachFetchedOnce, BoundIsSettled, OffersAreKept, VisitedAreBusy, SameKey
<1>4. QED
  BY <1>1, <1>2, <1>3 DEF MediaStarted

(* No fetch is under way: then the server is asked for what is missing,    *)
(* which no remote server is left for.                                     *)
LEMMA ConventionalKeeps ==
  ASSUME MediaInv, startConventionalTransfers
  PROVE  MediaInv'
<1>1. /\ step = "transfers"
      /\ visited = MaxFiles \/ m_httpfetch_active >= m_httpfetch_active_limit
      /\ step' = "outside" /\ visited' = 0 /\ changing_name_bound' = FALSE
      /\ asked_server' =
           IF m_httpfetch_active = 0 /\ m_uncached_received_count # m_uncached_count
           THEN asked_server \union (Files \ received) ELSE asked_server
      /\ media' = media /\ received' = received /\ m_uncached_count' = m_uncached_count
      /\ m_uncached_received_count' = m_uncached_received_count
      /\ current_remote' = current_remote /\ available_remotes' = available_remotes
      /\ m_outstanding_hash_sets' = m_outstanding_hash_sets
      /\ m_httpfetch_active' = m_httpfetch_active /\ m_name_bound' = m_name_bound
      /\ fetching' = fetching /\ fetched' = fetched /\ bunches' = bunches
      /\ offered_by' = offered_by /\ tried' = tried
  BY DEF startConventionalTransfers
<1>2. media = "started" /\ MediaStarted /\ MediaTypes /\ asked_server = {} /\ bunches = <<>>
  BY <1>1 DEF MediaInv, MediaInit, ServerIsAsked, MediaTypes
<1>3. MediaTypes'
  <2>1. asked_server' \subseteq Files /\ 0 \in 0 .. MaxFiles
    BY <1>1, <1>2, MediaFinite
  <2>2. QED
    BY <1>1, <1>2, <2>1 DEF MediaTypes
<1>4. MediaStarted'
  BY <1>1, <1>2, MediaSame
<1>5. CASE m_httpfetch_active # 0
  <2>1. asked_server' = {}
    BY <1>1, <1>2, <1>5
  <2>2. ServerIsAsked' /\ RemotesFirst'
    BY <1>1, <1>2, <2>1 DEF ServerIsAsked, RemotesFirst
  <2>3. QED
    BY <1>1, <1>2, <1>3, <1>4, <2>2 DEF MediaInv
<1>6. CASE m_httpfetch_active = 0
  <2>1. /\ fetching \subseteq MediaFetches /\ IsFiniteSet(fetching) /\ Cardinality(fetching) \in Nat
        /\ fetched \in Seq(MediaResults) /\ Len(fetched) \in Nat
    <3>1. fetching \subseteq MediaFetches /\ fetched \in Seq(MediaResults)
      BY <1>2 DEF MediaTypes
    <3>2. IsFiniteSet(fetching)
      BY <3>1, MediaFinite, FS_Subset
    <3>3. QED
      BY <3>1, <3>2, FS_CardinalityType
  <2>2. FilesFetched \subseteq Files /\ IsFiniteSet(FilesFetched) /\ Cardinality(FilesFetched) \in Nat
    <3>1. FilesFetched \subseteq Files
      BY DEF FilesFetched
    <3>2. QED
      BY <3>1, MediaFinite, FS_Subset, FS_CardinalityType
  <2>3. /\ m_httpfetch_active = Cardinality(fetching) + Len(fetched)
        /\ m_httpfetch_active = Cardinality(FilesFetched) + m_outstanding_hash_sets
        /\ m_outstanding_hash_sets \in Nat
    BY <1>2 DEF MediaStarted, MediaCounts, MediaTypes
  <2>4. Cardinality(fetching) = 0 /\ Len(fetched) = 0
    BY <1>6, <2>1, <2>3
  <2>5. fetching = {} /\ fetched = <<>>
    BY <2>1, <2>4, FS_EmptySet
  <2>6. m_outstanding_hash_sets = 0 /\ Cardinality(FilesFetched) = 0
    BY <1>6, <2>2, <2>3
  <2>7. FilesFetched = {}
    BY <2>2, <2>6, FS_EmptySet
  <2>8. visited = MaxFiles
    BY <1>1, <1>6, MediaAssumption
  <2>9. ASSUME NEW f \in Files \ received PROVE offered_by[f] \subseteq tried[f]
    <3>1. current_remote[f] = NoRemote
      BY <2>7 DEF FilesFetched
    <3>2. available_remotes[f] = <<>>
      BY <1>1, <1>2, <2>8, <3>1 DEF MediaStarted, VisitedAreBusy, Files
    <3>3. ToSet(available_remotes[f]) = {}
      BY <3>2, EmptyQueue
    <3>4. offered_by[f] \subseteq tried[f] \union {NoRemote}
      BY <1>2, <3>1, <3>3 DEF MediaStarted, OffersAreKept
    <3>5. NoRemote \notin offered_by[f]
      BY <1>2, MediaFinite DEF MediaTypes
    <3>6. QED
      BY <3>4, <3>5
  <2>10. ServerIsAsked'
    BY <1>1, <2>5 DEF ServerIsAsked
  <2>11. RemotesFirst'
    BY <1>1, <1>2, <2>6, <2>9 DEF RemotesFirst
  <2>12. QED
    BY <1>1, <1>2, <1>3, <1>4, <2>10, <2>11 DEF MediaInv
<1>7. QED
  BY <1>5, <1>6

(* A fetch ends: its result is under way instead.                          *)
LEMMA FetchEndsKeeps ==
  ASSUME MediaInv, NEW o \in fetching, NEW has \in SUBSET Files, FetchEnds(o, has)
  PROVE  MediaInv'
<1> DEFINE e == [remote |-> o.remote, file |-> o.file, has |-> has]
<1>1. /\ fetching' = fetching \ {o} /\ fetched' = Append(fetched, e)
      /\ step' = step /\ visited' = visited /\ changing_name_bound' = changing_name_bound
      /\ media' = media /\ received' = received /\ m_uncached_count' = m_uncached_count
      /\ m_uncached_received_count' = m_uncached_received_count
      /\ current_remote' = current_remote /\ available_remotes' = available_remotes
      /\ m_outstanding_hash_sets' = m_outstanding_hash_sets
      /\ m_httpfetch_active' = m_httpfetch_active /\ m_name_bound' = m_name_bound
      /\ asked_server' = asked_server /\ bunches' = bunches
      /\ offered_by' = offered_by /\ tried' = tried
  BY DEF FetchEnds, loop
<1>2. media = "started" /\ MediaStarted /\ MediaTypes /\ asked_server = {} /\ bunches = <<>>
  BY DEF MediaInv, MediaInit, ServerIsAsked, MediaTypes
<1>3. /\ MediaCounts /\ EachFetchedOnce /\ BoundIsSettled /\ VisitedAreBusy /\ OffersAreKept
  BY <1>2 DEF MediaStarted
<1>4. /\ fetching \subseteq MediaFetches /\ fetched \in Seq(MediaResults) /\ o \in MediaFetches
      /\ ToSet(fetched) \subseteq MediaResults
  BY <1>2, QueueSet DEF MediaTypes
<1>5. e \in MediaResults /\ SameKey(e, o) /\ e.remote = o.remote /\ e.file = o.file
  BY <1>4 DEF MediaFetches, MediaResults, SameKey
<1> HIDE DEF e
<1>6. \A d \in ToSet(fetched) : ~SameKey(d, e) /\ ~SameKey(e, d)
  BY <1>3, <1>5 DEF EachFetchedOnce, SameKey
<1>7. e \notin ToSet(fetched)
  BY <1>6 DEF SameKey
<1>8. /\ fetched' \in Seq(MediaResults) /\ ToSet(fetched') = ToSet(fetched) \union {e}
      /\ Once(fetched) => Once(fetched')
      /\ Len(fetched') = Len(fetched) + 1 /\ Len(fetched) \in Nat
  BY <1>1, <1>4, <1>5, <1>7, PutLast
<1>9. \A d \in fetching \ {o} : ~SameKey(e, d)
  <2>1. \A k, h \in MediaFetches : SameKey(k, h) => k = h
    BY DEF MediaFetches, SameKey
  <2>2. \A d : SameKey(e, d) => SameKey(o, d)
    BY <1>5 DEF SameKey
  <2>3. QED
    BY <1>4, <2>1, <2>2
<1>10. EachFetchedOnce'
  BY <1>1, <1>3, <1>6, <1>8, <1>9 DEF EachFetchedOnce, SameKey
<1>11. Cardinality(fetching') = Cardinality(fetching) - 1 /\ Cardinality(fetching) \in Nat
  <2>1. IsFiniteSet(fetching)
    BY <1>4, MediaFinite, FS_Subset
  <2>2. QED
    BY <1>1, <2>1, FS_RemoveElement, FS_CardinalityType
<1>12. HashSetsOut' = HashSetsOut
  <2>1. ASSUME NEW h \in MediaFetches
        PROVE  (\E d \in UnderWay' : SameKey(d, h)) <=> (\E d \in UnderWay : SameKey(d, h))
    <3>1. SameKey(e, h) <=> SameKey(o, h)
      BY <1>5 DEF SameKey
    <3>2. UnderWay' = (UnderWay \ {o}) \union {e} \/ UnderWay' = UnderWay \union {e}
      BY <1>1, <1>8 DEF UnderWay
    <3>3. o \in UnderWay
      BY DEF UnderWay
    <3>4. QED
      BY <3>1, <3>2, <3>3
  <2>2. HashSetsOut' = {h \in MediaFetches : h.file = HashSet /\ \E d \in UnderWay' : SameKey(d, h)}
    BY DEF HashSetsOut, SameKey
  <2>3. QED
    BY <2>1, <2>2 DEF HashSetsOut
<1>13. MediaStarted'
  <2>1. FilesFetched' = FilesFetched
    BY <1>1 DEF FilesFetched
  <2>2. MediaCounts'
    <3>1. m_httpfetch_active' = Cardinality(fetching') + Len(fetched')
      BY <1>1, <1>3, <1>8, <1>11 DEF MediaCounts
    <3>2. ASSUME NEW d \in UnderWay', d.file # HashSet
          PROVE  d.file \notin received /\ current_remote[d.file] = d.remote
      <4>1. CASE d = e
        <5>1. o \in UnderWay /\ o.file # HashSet
          BY <1>5, <3>2, <4>1 DEF UnderWay
        <5>2. QED
          BY <1>3, <1>5, <4>1, <5>1 DEF MediaCounts
      <4>2. CASE d # e
        <5>1. d \in UnderWay
          BY <1>1, <1>8, <4>2 DEF UnderWay
        <5>2. QED
          BY <1>3, <3>2, <5>1 DEF MediaCounts
      <4>3. QED
        BY <4>1, <4>2
    <3>3. QED
      BY <1>1, <1>3, <1>12, <2>1, <3>1, <3>2 DEF MediaCounts
  <2>3. BoundIsSettled' /\ VisitedAreBusy' /\ OffersAreKept'
    BY <1>1, <1>3 DEF BoundIsSettled, VisitedAreBusy, OffersAreKept
  <2>4. QED
    BY <1>2, <1>10, <2>1, <2>2, <2>3 DEF MediaStarted
<1>14. MediaTypes'
  BY <1>1, <1>2, <1>8 DEF MediaTypes
<1>15. ServerIsAsked' /\ RemotesFirst'
  BY <1>1, <1>2 DEF ServerIsAsked, RemotesFirst
<1>16. QED
  BY <1>1, <1>2, <1>13, <1>14, <1>15 DEF MediaInv

(* The downloader is deleted, with its fetches; the server sends; a bunch  *)
(* comes.                                                                  *)
LEMMA DownloaderDeleted ==
  ASSUME MediaInv, MediaIsDone
  PROVE  MediaInv'
<1>1. /\ media = "started" /\ step = "outside" /\ media' = "done"
      /\ fetching' = {} /\ fetched' = <<>>
      /\ step' = step /\ visited' = visited /\ changing_name_bound' = changing_name_bound
      /\ received' = received /\ m_uncached_count' = m_uncached_count
      /\ m_uncached_received_count' = m_uncached_received_count
      /\ current_remote' = current_remote /\ available_remotes' = available_remotes
      /\ m_outstanding_hash_sets' = m_outstanding_hash_sets
      /\ m_httpfetch_active' = m_httpfetch_active /\ m_name_bound' = m_name_bound
      /\ asked_server' = asked_server /\ bunches' = bunches
      /\ offered_by' = offered_by /\ tried' = tried
  BY DEF MediaIsDone, Outside, loop
<1>2. MediaTypes'
  <2>1. MediaTypes /\ <<>> \in Seq(MediaResults)
    BY DEF MediaInv
  <2>2. QED
    BY <1>1, <2>1 DEF MediaTypes
<1>3. ServerIsAsked' /\ RemotesFirst'
  BY <1>1 DEF MediaInv, ServerIsAsked, RemotesFirst
<1>4. QED
  BY <1>1, <1>2, <1>3 DEF MediaInv

LEMMA ServerSendsKeeps ==
  ASSUME MediaInv, NEW bunch \in SUBSET Files, sendRequestedMedia(bunch)
  PROVE  MediaInv'
<1>1. /\ bunch # {} /\ bunch \subseteq asked_server /\ asked_server' = asked_server \ bunch
      /\ bunches' = Append(bunches, bunch)
      /\ step' = step /\ visited' = visited /\ changing_name_bound' = changing_name_bound
      /\ media' = media /\ received' = received /\ m_uncached_count' = m_uncached_count
      /\ m_uncached_received_count' = m_uncached_received_count
      /\ current_remote' = current_remote /\ available_remotes' = available_remotes
      /\ m_outstanding_hash_sets' = m_outstanding_hash_sets
      /\ m_httpfetch_active' = m_httpfetch_active /\ m_name_bound' = m_name_bound
      /\ fetching' = fetching /\ fetched' = fetched
      /\ offered_by' = offered_by /\ tried' = tried
  BY DEF sendRequestedMedia, loop
<1>2. /\ asked_server # {} /\ MediaTypes /\ media # "announced"
      /\ fetching = {} /\ fetched = <<>> /\ step = "outside"
  BY <1>1 DEF MediaInv, ServerIsAsked, MediaInit
<1>3. MediaTypes'
  <2>1. bunches' \in Seq(SUBSET Files)
    BY <1>1, <1>2, PutLast DEF MediaTypes
  <2>2. QED
    BY <1>1, <1>2, <2>1 DEF MediaTypes
<1>4. media = "started" => MediaStarted'
  BY <1>1, <1>2, MediaSame DEF MediaInv
<1>5. ServerIsAsked' /\ RemotesFirst'
  BY <1>1, <1>2 DEF MediaInv, ServerIsAsked, RemotesFirst
<1>6. QED
  BY <1>1, <1>2, <1>3, <1>4, <1>5 DEF MediaInv

LEMMA BunchKeeps ==
  ASSUME MediaInv, handleCommand_Media
  PROVE  MediaInv'
<1> DEFINE bunch == Head(bunches)
<1>1. /\ bunches # <<>> /\ media = "started" /\ step = "outside"
      /\ received' = received \union bunch
      /\ m_uncached_received_count' = m_uncached_received_count + Cardinality(bunch \ received)
      /\ bunches' = Tail(bunches)
      /\ step' = step /\ visited' = visited /\ changing_name_bound' = changing_name_bound
      /\ media' = media /\ m_uncached_count' = m_uncached_count
      /\ current_remote' = current_remote /\ available_remotes' = available_remotes
      /\ m_outstanding_hash_sets' = m_outstanding_hash_sets
      /\ m_httpfetch_active' = m_httpfetch_active /\ m_name_bound' = m_name_bound
      /\ fetching' = fetching /\ fetched' = fetched /\ asked_server' = asked_server
      /\ offered_by' = offered_by /\ tried' = tried
  BY DEF handleCommand_Media, Outside, loop
<1>2. MediaStarted /\ MediaTypes /\ fetching = {} /\ fetched = <<>>
  BY <1>1 DEF MediaInv, ServerIsAsked
<1>3. bunch \in SUBSET Files /\ bunches' \in Seq(SUBSET Files)
  BY <1>1, <1>2, TakeFirst DEF MediaTypes
<1> HIDE DEF bunch
<1>4. /\ received' \subseteq Files /\ m_uncached_received_count' \in Nat
      /\ m_uncached_received_count' - m_uncached_count' = Cardinality(received') - MaxFiles
  <2>1. received \subseteq Files
    BY <1>2 DEF MediaTypes
  <2>2. /\ IsFiniteSet(received) /\ IsFiniteSet(bunch \ received)
        /\ Cardinality(received) \in Nat /\ Cardinality(bunch \ received) \in Nat
    <3>1. IsFiniteSet(received) /\ IsFiniteSet(bunch \ received)
      BY <1>3, <2>1, MediaFinite, FS_Subset
    <3>2. QED
      BY <3>1, FS_CardinalityType
  <2>3. Cardinality(received') = Cardinality(received) + Cardinality(bunch \ received)
    <3>1. received' = received \union (bunch \ received) /\ received \cap (bunch \ received) = {}
      BY <1>1
    <3>2. PICK B : B = bunch \ received
      OBVIOUS
    <3>3. Cardinality(received \union B)
            = Cardinality(received) + Cardinality(B) - Cardinality(received \cap B)
      BY <2>2, <3>2, FS_Union
    <3>4. Cardinality(received \cap B) = 0
      BY <3>1, <3>2, FS_EmptySet
    <3>5. QED
      BY <2>2, <3>1, <3>2, <3>3, <3>4
  <2>4. /\ m_uncached_received_count - m_uncached_count = Cardinality(received) - MaxFiles
        /\ m_uncached_received_count \in Nat /\ m_uncached_count \in Nat /\ MaxFiles \in Nat
    BY <1>1, <1>2, MediaFinite DEF MediaInv, MediaTypes
  <2>5. /\ m_uncached_received_count' = m_uncached_received_count + Cardinality(bunch \ received)
        /\ m_uncached_count' = m_uncached_count
    BY <1>1
  <2>6. received' \subseteq Files
    BY <1>1, <1>3, <2>1
  <2>7. QED
    BY <2>2, <2>3, <2>4, <2>5, <2>6
<1>5. MediaTypes'
  BY <1>1, <1>2, <1>3, <1>4 DEF MediaTypes
<1>6. UnderWay' = {} /\ FilesFetched' = FilesFetched /\ HashSetsOut' = HashSetsOut
  <2>1. UnderWay = {}
    BY <1>2, EmptyQueue DEF UnderWay
  <2>2. UnderWay' = UnderWay
    BY <1>1 DEF UnderWay
  <2>3. QED
    BY <1>1, <2>1, <2>2 DEF FilesFetched, HashSetsOut, SameKey
<1>7. MediaStarted'
  <2>1. MediaCounts'
    BY <1>1, <1>2, <1>6 DEF MediaStarted, MediaCounts
  <2>2. EachFetchedOnce' /\ BoundIsSettled' /\ VisitedAreBusy' /\ OffersAreKept'
    BY <1>1, <1>2 DEF MediaStarted, EachFetchedOnce, BoundIsSettled, VisitedAreBusy,
                      OffersAreKept, SameKey
  <2>3. QED
    BY <1>2, <1>6, <2>1, <2>2 DEF MediaStarted
<1>8. ServerIsAsked' /\ RemotesFirst'
  BY <1>1, <1>2 DEF MediaInv, ServerIsAsked, RemotesFirst
<1>9. QED
  BY <1>1, <1>4, <1>5, <1>7, <1>8 DEF MediaInv

LEMMA MediaKeeps ==
  ASSUME MediaInv, [MediaNext]_mediaVars
  PROVE  MediaInv'
<1>1. CASE \E cached \in SUBSET Files : initialStep(cached)
  BY <1>1, InitialStepKeeps
<1>2. CASE AFetchEnds
  BY <1>2, FetchEndsKeeps DEF AFetchEnds
<1>3. CASE ServerSends
  BY <1>3, ServerSendsKeeps DEF ServerSends
<1>4. CASE \E r \in ToSet(fetched) : remoteHashSetReceived(r) \/ remoteMediaReceived(r)
  BY <1>4, HashSetReceivedKeeps, FileReceivedKeeps
<1>5. CASE startRemoteMediaTransfers
  BY <1>5, TransfersStart
<1>6. CASE startConventionalTransfers
  BY <1>6, ConventionalKeeps
<1>7. CASE MediaIsDone
  BY <1>7, DownloaderDeleted
<1>8. CASE handleCommand_Media
  BY <1>8, BunchKeeps
<1>9. CASE \E f \in Files : VisitFile(f)
  BY <1>9, VisitKeeps
<1>10. CASE UNCHANGED mediaVars
  <2>1. /\ step' = step /\ visited' = visited /\ changing_name_bound' = changing_name_bound
        /\ media' = media /\ received' = received /\ m_uncached_count' = m_uncached_count
        /\ m_uncached_received_count' = m_uncached_received_count
        /\ current_remote' = current_remote /\ available_remotes' = available_remotes
        /\ m_outstanding_hash_sets' = m_outstanding_hash_sets
        /\ m_httpfetch_active' = m_httpfetch_active /\ m_name_bound' = m_name_bound
        /\ fetching' = fetching /\ fetched' = fetched /\ asked_server' = asked_server
        /\ bunches' = bunches /\ offered_by' = offered_by /\ tried' = tried
    BY <1>10 DEF mediaVars
  <2>2. UnderWay' = UnderWay /\ FilesFetched' = FilesFetched /\ HashSetsOut' = HashSetsOut
    BY <2>1 DEF UnderWay, FilesFetched, HashSetsOut, SameKey
  <2>3. MediaStarted => MediaStarted'
    <3>1. MediaCounts => MediaCounts'
      BY <2>1, <2>2 DEF MediaCounts
    <3>2. /\ EachFetchedOnce => EachFetchedOnce'
          /\ BoundIsSettled => BoundIsSettled'
          /\ VisitedAreBusy => VisitedAreBusy'
          /\ OffersAreKept => OffersAreKept'
      BY <2>1 DEF EachFetchedOnce, BoundIsSettled, VisitedAreBusy, OffersAreKept, SameKey
    <3>3. QED
      BY <2>2, <3>1, <3>2 DEF MediaStarted
  <2>4. MediaTypes'
    BY <2>1 DEF MediaInv, MediaTypes
  <2>5. ServerIsAsked' /\ RemotesFirst' /\ (MediaInit => MediaInit')
    BY <2>1 DEF MediaInv, ServerIsAsked, RemotesFirst, MediaInit
  <2>6. QED
    BY <2>1, <2>3, <2>4, <2>5 DEF MediaInv
<1>11. QED
  BY <1>1, <1>2, <1>3, <1>4, <1>5, <1>6, <1>7, <1>8, <1>9, <1>10 DEF MediaNext

LEMMA MediaMoves ==
  ASSUME [WorkersNext]_workersVars
  PROVE  [MediaNext]_mediaVars
<1>1. CASE WorkersNext
  BY <1>1 DEF WorkersNext, AbmPart, AsyncPart, HttpPart, MeshPart, MediaPart, EmergePart, PeersPart
<1>2. CASE UNCHANGED workersVars
  BY <1>2 DEF workersVars
<1>3. QED
  BY <1>1, <1>2

LEMMA MediaAlways == WorkersSpec => []MediaInv
<1>1. WorkersInit => MediaInv
  BY MediaBegins DEF WorkersInit
<1>2. MediaInv /\ [WorkersNext]_workersVars => MediaInv'
  BY MediaMoves, MediaKeeps
<1>3. QED
  BY <1>1, <1>2, PTL DEF WorkersSpec

LEMMA MediaInvSound ==
  ASSUME MediaInv
  PROVE  MediaIsSound /\ MediaTypeOK
<1>1. MediaTypes /\ RemotesFirst
  BY DEF MediaInv
<1>2. CountsAgree
  <2> SUFFICES ASSUME media = "started"
               PROVE  /\ m_httpfetch_active = Cardinality(fetching) + Len(fetched)
                      /\ \A o \in fetching \union ToSet(fetched) :
                           IF o.file = HashSet THEN TRUE
                           ELSE o.file \notin received /\ current_remote[o.file] = o.remote
                      /\ Cardinality({f \in Files : current_remote[f] # NoRemote})
                           <= m_httpfetch_active_limit
                      /\ m_uncached_received_count - m_uncached_count
                           = Cardinality(received) - MaxFiles
    BY DEF CountsAgree
  <2>1. MediaStarted /\ media # "announced"
    BY DEF MediaInv
  <2>2. /\ m_httpfetch_active = Cardinality(fetching) + Len(fetched)
        /\ \A o \in UnderWay : o.file # HashSet =>
             o.file \notin received /\ current_remote[o.file] = o.remote
        /\ Cardinality(FilesFetched) <= m_httpfetch_active_limit
    BY <2>1 DEF MediaStarted, MediaCounts
  <2>3. m_uncached_received_count - m_uncached_count = Cardinality(received) - MaxFiles
    BY <2>1 DEF MediaInv
  <2>4. QED
    BY <2>2, <2>3 DEF UnderWay, FilesFetched
<1>3. m_uncached_received_count \in 0 .. m_uncached_count
  <2>1. CASE media = "announced"
    BY <2>1 DEF MediaInv, MediaInit
  <2>2. CASE media # "announced"
    <3>1. received \subseteq Files
      BY <1>1 DEF MediaTypes
    <3>2. IsFiniteSet(received) /\ Cardinality(received) <= MaxFiles
      BY <3>1, MediaFinite, FS_Subset
    <3>3. Cardinality(received) \in Nat
      BY <3>2, FS_CardinalityType
    <3>4. /\ m_uncached_received_count - m_uncached_count = Cardinality(received) - MaxFiles
          /\ m_uncached_received_count \in Nat /\ m_uncached_count \in Nat /\ MaxFiles \in Nat
      BY <1>1, <2>2, MediaFinite DEF MediaInv, MediaTypes
    <3>5. QED
      BY <3>2, <3>3, <3>4
  <2>3. QED
    BY <2>1, <2>2
<1>4. QED
  BY <1>1, <1>2, <1>3 DEF MediaIsSound, MediaTypeOK, MediaTypes

(* The books that are kept beside a queue say what is in it, for any       *)
(* number of threads, files and servers: a result of a fetch is kept for   *)
(* somebody who will look for it (httpfetch.cpp), each copy of a block as  *)
(* often as an entry of the queue needs it (mesh_generator_thread.cpp),    *)
(* and the downloader counts the fetches that are under way, never two of  *)
(* one file, and asks the server only for what no remote server could      *)
(* deliver (clientmedia.cpp).                                              *)
THEOREM WorkersBooksAgree == WorkersSpec => []BooksAgree
<1>1. HttpInv /\ MeshInv /\ MediaInv => BooksAgree
  BY MeshInvSound, MediaInvSound DEF BooksAgree, HttpInv, Callers
<1>2. QED
  BY <1>1, HttpAlways, MeshAlways, MediaAlways, PTL

-----------------------------------------------------------------------------
(* The types.  A batch is posted for once, when the last of it is queued.  *)

AbmWorkerType == [pc : {"new", "check", "wait", "scan"}, job : AbmJobs \union {<<>>}]

Batches == batch \in 0 .. MaxBatches /\ smp \in Nat
           /\ smp + (IF queueing = <<>> THEN 0 ELSE 1) <= batch

AbmOthers == Batches /\ abmt \in [AbmWorkers -> AbmWorkerType] /\ abmExcuse \subseteq asked_abm

LEMMA AbmWorkerMoves ==
  ASSUME abmt \in [AbmWorkers -> AbmWorkerType], NEW w \in AbmWorkers,
         NEW x \in AbmWorkerType, abmt' = [abmt EXCEPT ![w] = x]
  PROVE  abmt' \in [AbmWorkers -> AbmWorkerType]
OBVIOUS

LEMMA AbmWorkersAre == \A x \in {"new", "check", "wait"} : Worker(x) \in AbmWorkerType
BY DEF Worker, AbmWorkerType

LEMMA AbmOthersKept ==
  ASSUME AbmInv, AbmOthers, [AbmNext]_abmVars
  PROVE  AbmOthers'
<1>0. /\ queueing \in Seq(AbmJobs) /\ ABM_MapBlocks \in Seq(AbmJobs) /\ using \in Seq(AbmJobs)
      /\ triggeringluatoapply \in Seq(AbmJobs)
      /\ MaxBatches \in Nat /\ Batches /\ abmt \in [AbmWorkers -> AbmWorkerType]
      /\ abmExcuse \subseteq asked_abm
  BY AbmEngineAssumption DEF AbmInv, AbmTypes, AbmOthers
<1>1. \A j \in AbmPending : j \in asked_abm
  BY DEF AbmInv, AbmBooks
<1>2. CASE UNCHANGED abmVars
  BY <1>0, <1>2 DEF abmVars, AbmOthers, Batches
<1>3. ASSUME NEW S \in SUBSET inMap, NEW blocks \in SetToSeqs(S), AbmStep(blocks)
      PROVE  AbmOthers'
  <2>1. queueing = <<>> /\ batch < MaxBatches /\ batch' = batch + 1 /\ smp' = smp /\ abmt' = abmt
        /\ asked_abm \subseteq asked_abm' /\ abmExcuse' = abmExcuse
    BY <1>3 DEF AbmStep, ServerIdle
  <2>2. Batches'
    BY <1>0, <2>1 DEF Batches
  <2>3. QED
    BY <1>0, <2>1, <2>2 DEF AbmOthers
<1>4. CASE QueueMapBlock
  <2>1. /\ queueing # <<>> /\ queueing' = Tail(queueing)
        /\ smp' = IF Len(queueing) = 1 THEN smp + 1 ELSE smp
        /\ UNCHANGED <<batch, abmt, asked_abm, abmExcuse>>
    BY <1>4 DEF QueueMapBlock, abmHistory
  <2>2. Len(queueing) = 1 => queueing' = <<>>
    BY <1>0, <2>1
  <2>3. Batches'
    BY <1>0, <2>1, <2>2 DEF Batches
  <2>4. QED
    BY <1>0, <2>1, <2>3 DEF AbmOthers
<1>5. CASE startengine
  <2>1. /\ abmt' = [w \in AbmWorkers |-> IF abmt[w].pc = "new" THEN Worker("check") ELSE abmt[w]]
        /\ UNCHANGED <<batch, queueing, smp, asked_abm, abmExcuse>>
    BY <1>5 DEF startengine, queueVarsOfAbm, abmHistory
  <2>2. abmt' \in [AbmWorkers -> AbmWorkerType]
    BY <1>0, <2>1, AbmWorkersAre
  <2>3. QED
    BY <1>0, <2>1, <2>2 DEF AbmOthers, Batches
<1>6. ASSUME NEW b \in AbmBlocks, AbmBlockDeleted(b) PROVE AbmOthers'
  BY <1>0, <1>6 DEF AbmBlockDeleted, AbmOthers, Batches, queueVarsOfAbm
<1>7. CASE PopTrigger \/ RunTrigger
  BY <1>0, <1>7 DEF PopTrigger, RunTrigger, AbmOthers, Batches, queueVarsOfAbm, abmHistory
<1>8. CASE RunFreedTrigger
  <2>1. /\ using # <<>> /\ UNCHANGED <<batch, queueing, smp, abmt, asked_abm>>
        /\ \/ abmExcuse' = abmExcuse \union {Head(using)}
           \/ /\ triggeringluatoapply # <<>>
              /\ abmExcuse' = abmExcuse \union {Head(using), Head(triggeringluatoapply)}
    BY <1>8 DEF RunFreedTrigger, queueVarsOfAbm
  <2>2. Head(using) \in asked_abm
    <3>1. Head(using) \in ToSet(using)
      BY <1>0, <2>1, TakeFirst
    <3>2. QED
      BY <1>1, <3>1 DEF AbmPending
  <2>3. triggeringluatoapply # <<>> => Head(triggeringluatoapply) \in asked_abm
    <3>1. triggeringluatoapply # <<>> => Head(triggeringluatoapply) \in ToSet(triggeringluatoapply)
      BY <1>0, TakeFirst
    <3>2. QED
      BY <1>1, <3>1 DEF AbmPending
  <2>4. QED
    BY <1>0, <2>1, <2>2, <2>3 DEF AbmOthers, Batches
<1>9. ASSUME NEW w \in AbmWorkers, TakeMapBlock(w) PROVE AbmOthers'
  <2>1. PICK x \in AbmWorkerType : abmt' = [abmt EXCEPT ![w] = x]
    <3>1. CASE ABM_MapBlocks = <<>>
      BY <1>9, <3>1, AbmWorkersAre DEF TakeMapBlock
    <3>2. CASE ABM_MapBlocks # <<>>
      <4>1. Head(ABM_MapBlocks) \in AbmJobs
        BY <1>0, <3>2
      <4>2. [pc |-> "scan", job |-> Head(ABM_MapBlocks)] \in AbmWorkerType
        BY <4>1 DEF AbmWorkerType
      <4>3. QED
        BY <1>9, <3>2, <4>2 DEF TakeMapBlock
    <3>3. QED
      BY <3>1, <3>2
  <2>2. abmt' \in [AbmWorkers -> AbmWorkerType]
    BY <1>0, <2>1, AbmWorkerMoves
  <2>3. QED
    BY <1>0, <1>9, <2>2 DEF TakeMapBlock, AbmOthers, Batches, abmHistory
<1>10. ASSUME NEW w \in AbmWorkers, WaitForMapBlocks(w) PROVE AbmOthers'
  <2>1. abmt' \in [AbmWorkers -> AbmWorkerType]
    BY <1>0, <1>10, AbmWorkersAre, AbmWorkerMoves DEF WaitForMapBlocks
  <2>2. smp > 0 /\ smp' = smp - 1 /\ UNCHANGED <<batch, queueing, asked_abm, abmExcuse>>
    BY <1>10 DEF WaitForMapBlocks, abmHistory
  <2>3. Batches'
    BY <1>0, <2>2 DEF Batches
  <2>4. QED
    BY <1>0, <2>1, <2>2, <2>3 DEF AbmOthers
<1>11. ASSUME NEW w \in AbmWorkers, NEW found \in BOOLEAN, trigger_actions(w, found)
       PROVE  AbmOthers'
  <2>1. abmt' \in [AbmWorkers -> AbmWorkerType]
    BY <1>0, <1>11, AbmWorkersAre, AbmWorkerMoves DEF trigger_actions
  <2>2. QED
    BY <1>0, <1>11, <2>1 DEF trigger_actions, AbmOthers, Batches, queueVarsOfAbm
<1>12. CASE AbmServerNext
  BY <1>4, <1>7, <1>8, <1>12 DEF AbmServerNext
<1>13. ASSUME NEW w \in AbmWorkers, AbmWorkerNext(w) PROVE AbmOthers'
  BY <1>9, <1>10, <1>11, <1>13, Zenon DEF AbmWorkerNext
<1>14. ASSUME NEW S \in SUBSET inMap \ {{}}, NEW blocks \in SetToSeqs(S), AbmStep(blocks)
       PROVE  AbmOthers'
  BY <1>3, <1>14, Zenon
<1>15. QED
  BY <1>2, <1>5, <1>6, <1>12, <1>13, <1>14, Zenon DEF AbmNext

LEMMA AbmTypesAlways == WorkersSpec => []AbmTypeOK
<1>1. WorkersInit => AbmOthers
  <2> SUFFICES ASSUME AbmInit PROVE AbmOthers
    BY DEF WorkersInit
  <2>1. abmt \in [AbmWorkers -> AbmWorkerType]
    BY AbmWorkersAre DEF AbmInit
  <2>2. QED
    BY <2>1, AbmEngineAssumption DEF AbmInit, AbmOthers, Batches
<1>2. AbmInv /\ AbmOthers /\ [WorkersNext]_workersVars => AbmOthers'
  BY AbmMoves, AbmOthersKept
<1>3. AbmInv /\ AbmOthers => AbmTypeOK
  <2> SUFFICES ASSUME AbmInv, AbmOthers PROVE AbmTypeOK
    OBVIOUS
  <2>1. Len(using) <= 1
    <3>1. using = <<>> \/ \E j \in AbmJobs : using = <<j>>
      BY DEF AbmInv, AbmNoRepetition
    <3>2. Len(<<>>) <= 1 /\ \A j : Len(<<j>>) <= 1
      OBVIOUS
    <3>3. QED
      BY <3>1, <3>2
  <2>2. smp \in 0 .. MaxBatches
    BY AbmEngineAssumption DEF AbmOthers, Batches
  <2>3. QED
    BY <2>1, <2>2 DEF AbmTypeOK, AbmInv, AbmTypes, AbmOthers, Batches, AbmWorkerType
<1>4. QED
  BY <1>1, <1>2, <1>3, AbmAlways, PTL DEF WorkersSpec

(* There is never more in progress than the limit; the sessions are        *)
(* bounded by the model.                                                   *)
CurlPlaces == {"off", "requests", "queued", "perform", "wait", "next", "ended"}

HttpOthers ==
  /\ sessions <= MaxSessions /\ curl \in CurlPlaces
  /\ IsFiniteSet(m_all_ongoing) /\ Cardinality(m_all_ongoing) <= m_parallel_limit

LEMMA HttpOthersKept ==
  ASSUME HttpInv, HttpOthers, [HttpNext]_httpVars
  PROVE  HttpOthers'
<1>0. /\ sessions \in Nat /\ sessions <= MaxSessions /\ curl \in CurlPlaces
      /\ IsFiniteSet(m_all_ongoing) /\ Cardinality(m_all_ongoing) <= m_parallel_limit
      /\ MaxSessions \in Nat /\ m_parallel_limit \in Nat \ {0}
      /\ Cardinality(m_all_ongoing) \in Nat
  BY HttpFetchAssumption, FS_CardinalityType DEF HttpInv, HttpTypes, HttpOthers
<1>1. ASSUME m_all_ongoing' \subseteq m_all_ongoing
      PROVE  IsFiniteSet(m_all_ongoing') /\ Cardinality(m_all_ongoing') <= m_parallel_limit
  <2>1. PICK S : S = m_all_ongoing'
    OBVIOUS
  <2>2. IsFiniteSet(S) /\ Cardinality(S) <= Cardinality(m_all_ongoing)
    BY <1>0, <1>1, <2>1, FS_Subset
  <2>3. Cardinality(S) \in Nat
    BY <2>2, FS_CardinalityType
  <2>4. Cardinality(S) <= m_parallel_limit
    BY <1>0, <2>2, <2>3
  <2>5. QED
    BY <2>1, <2>2, <2>4
<1>2. CASE UNCHANGED httpVars
  BY <1>0, <1>2 DEF httpVars, curlVars, httpHistory, HttpOthers
<1>3. ASSUME NEW u \in HttpUsers, HttpUserNext(u) PROVE HttpOthers'
  <2>1. ASSUME NEW c \in CallerIds, httpfetch_caller_alloc(u, c) PROVE HttpOthers'
    BY <1>0, <2>1 DEF httpfetch_caller_alloc, curlVars, HttpOthers
  <2>2. ASSUME NEW f \in Fetches, httpfetch_async(u, f) PROVE HttpOthers'
    BY <1>0, <2>2 DEF httpfetch_async, HttpOthers, CurlPlaces
  <2>3. CASE httpfetch_async_get(u) \/ httpfetch_caller_free(u) \/ EraseResults(u)
    BY <1>0, <2>3 DEF httpfetch_async_get, httpfetch_caller_free, EraseResults, HttpOthers,
       curlVars, httpHistory
  <2>4. QED
    BY <1>3, <2>1, <2>2, <2>3 DEF HttpUserNext
<1>4. CASE httpfetch_cleanup
  BY <1>0, <1>4 DEF httpfetch_cleanup, HttpOthers, curlVars, httpHistory
<1>5. ASSUME NEW r, processRequest(r) PROVE m_all_ongoing' \subseteq m_all_ongoing
  BY <1>5 DEF processRequest
<1>6. CASE TakeRequests
  <2>1. m_all_ongoing' \subseteq m_all_ongoing /\ curl' \in CurlPlaces /\ sessions' = sessions
    BY <1>0, <1>5, <1>6 DEF TakeRequests, CurlPlaces, httpHistory
  <2>2. QED
    BY <1>0, <1>1, <2>1 DEF HttpOthers
<1>7. CASE processQueued
  <2>1. curl' \in CurlPlaces /\ sessions' = sessions
    BY <1>0, <1>7 DEF processQueued, CurlPlaces, httpHistory
  <2>2. CASE m_all_ongoing' = m_all_ongoing
    BY <1>0, <1>1, <2>1, <2>2 DEF HttpOthers
  <2>3. CASE m_all_ongoing' # m_all_ongoing
    <3>1. PICK o : m_all_ongoing' = m_all_ongoing \union {o}
      BY <1>7, <2>3 DEF processQueued
    <3>2. Cardinality(m_all_ongoing) < m_parallel_limit
      BY <1>7, <2>3 DEF processQueued
    <3>3. PICK S : S = m_all_ongoing \union {o}
      OBVIOUS
    <3>4. IsFiniteSet(S) /\ Cardinality(S) <= Cardinality(m_all_ongoing) + 1
      BY <1>0, <3>3, FS_AddElement
    <3>5. Cardinality(S) \in Nat
      BY <3>4, FS_CardinalityType
    <3>6. Cardinality(S) <= m_parallel_limit
      BY <1>0, <3>2, <3>4, <3>5
    <3>7. QED
      BY <1>0, <2>1, <3>1, <3>3, <3>4, <3>6 DEF HttpOthers
  <2>4. QED
    BY <2>2, <2>3
<1>8. CASE GoesToWait
  BY <1>0, <1>8 DEF GoesToWait, HttpOthers, CurlPlaces, httpHistory
<1>9. CASE waitForRequest
  <2>1. m_all_ongoing' \subseteq m_all_ongoing /\ curl' \in CurlPlaces /\ sessions' = sessions
    BY <1>0, <1>5, <1>9 DEF waitForRequest, CurlPlaces, httpHistory
  <2>2. QED
    BY <1>0, <1>1, <2>1 DEF HttpOthers
<1>10. CASE GoesOn
  <2>1. m_all_ongoing' \subseteq m_all_ongoing /\ curl' \in CurlPlaces /\ sessions' = sessions
    BY <1>0, <1>10 DEF GoesOn, CurlPlaces, httpHistory
  <2>2. QED
    BY <1>0, <1>1, <2>1 DEF HttpOthers
<1>11. CASE CurlDone
  <2>1. PICK o \in m_all_ongoing : processCurlMessage(o)
    BY <1>11 DEF CurlDone
  <2>2. m_all_ongoing' \subseteq m_all_ongoing /\ curl' \in CurlPlaces /\ sessions' = sessions
    BY <1>0, <2>1 DEF processCurlMessage, httpHistory
  <2>3. QED
    BY <1>0, <1>1, <2>2 DEF HttpOthers
<1>12. CASE CurlLoop
  BY <1>6, <1>7, <1>8, <1>9, <1>10, <1>12 DEF CurlLoop
<1>13. QED
  BY <1>2, <1>3, <1>4, <1>11, <1>12 DEF HttpNext

LEMMA HttpTypesAlways == WorkersSpec => []HttpTypeOK
<1>1. WorkersInit => HttpOthers
  <2> SUFFICES ASSUME HttpInit PROVE HttpOthers
    BY DEF WorkersInit
  <2>1. IsFiniteSet({}) /\ Cardinality({}) = 0
    BY FS_EmptySet
  <2>2. QED
    BY <2>1, HttpFetchAssumption DEF HttpInit, HttpOthers, CurlPlaces
<1>2. HttpInv /\ HttpOthers /\ [WorkersNext]_workersVars => HttpOthers'
  BY HttpMoves, HttpOthersKept
<1>3. HttpInv /\ HttpOthers => HttpTypeOK
  <2> SUFFICES ASSUME HttpInv, HttpOthers PROVE HttpTypeOK
    OBVIOUS
  <2>1. /\ caller \in [HttpUsers -> [id : CallerIds \union {0}, session : Nat,
                                     freeing : BOOLEAN]]
        /\ \A u \in HttpUsers : caller[u].session \in 0 .. MaxSessions
        /\ callerIds \subseteq CallerIds
    <3>1. Callers /\ sessions \in Nat /\ sessions <= MaxSessions /\ MaxSessions \in Nat
      BY HttpFetchAssumption DEF HttpInv, HttpTypes, HttpOthers
    <3>2. NoCaller.session = 0
      BY DEF NoCaller
    <3>3. ASSUME NEW u \in HttpUsers PROVE caller[u].session \in 0 .. MaxSessions
      BY <3>1, <3>2 DEF Callers
    <3>4. QED
      BY <3>1, <3>3 DEF Callers
  <2>2. caller \in [HttpUsers -> [id : CallerIds \union {0}, session : 0 .. MaxSessions,
                                  freeing : BOOLEAN]]
    <3>1. ASSUME NEW u \in HttpUsers
          PROVE  caller[u] \in [id : CallerIds \union {0}, session : 0 .. MaxSessions,
                                freeing : BOOLEAN]
      BY <2>1
    <3>2. QED
      BY <2>1, <3>1
  <2>3. QED
    BY <2>1, <2>2 DEF HttpTypeOK, HttpInv, HttpTypes, HttpOthers, CurlPlaces
<1>4. QED
  BY <1>1, <1>2, <1>3, HttpAlways, PTL DEF WorkersSpec

(* The emerge manager and the peers, each as one of the parts.             *)
LEMMA EmergeTypesAlways == WorkersSpec => []EmergeTypeOK
<1>1. WorkersInit => EmergeInv
  BY EmergeBegins DEF WorkersInit
<1>2. [WorkersNext]_workersVars => [EmergeNext]_emergeVars
  <2>1. WorkersNext => [EmergeNext]_emergeVars
    BY Zenon DEF WorkersNext, AbmPart, AsyncPart, HttpPart, MeshPart, MediaPart, EmergePart,
       PeersPart
  <2>2. QED
    BY <2>1, Zenon DEF workersVars
<1>3. EmergeInv /\ [WorkersNext]_workersVars => EmergeInv'
  BY <1>2, EmergeKeeps
<1>4. EmergeInv => EmergeTypeOK
  BY EmergeInvSound
<1>5. QED
  BY <1>1, <1>3, <1>4, PTL DEF WorkersSpec

LEMMA PeerTypesAlways == WorkersSpec => []TypeOK
<1>1. WorkersInit => Init
  BY DEF WorkersInit
<1>2. [WorkersNext]_workersVars => [Next]_vars
  <2>1. WorkersNext => [Next]_vars
    BY Zenon DEF WorkersNext, AbmPart, AsyncPart, HttpPart, MeshPart, MediaPart, EmergePart,
       PeersPart
  <2>2. QED
    BY <2>1, Zenon DEF workersVars
<1>3. Init => IInv
  BY InitEstablishes
<1>4. IInv /\ [WorkersNext]_workersVars => IInv'
  BY <1>2, StepPreserves
<1>5. IInv => TypeOK
  BY DEF IInv, Core, CoreType, TypeOK, Threads, Events
<1>6. QED
  BY <1>1, <1>3, <1>4, <1>5, PTL DEF WorkersSpec

(* Every part stays within its types, for any number of threads, jobs,     *)
(* blocks, files and peers; there are never more transfers in progress     *)
(* than the limit, a worker is posted for at most once for each batch.     *)
THEOREM WorkersTypesAlways == WorkersSpec => []WorkersTypeOK
<1>1. AsyncInv /\ MeshInv /\ MediaInv => AsyncTypeOK /\ MeshTypeOK /\ MediaTypeOK
  BY MeshInvSound, MediaInvSound DEF AsyncInv
<1>2. QED
  BY <1>1, AbmTypesAlways, AsyncAlways, HttpTypesAlways, MeshAlways, MediaAlways,
     EmergeTypesAlways, PeerTypesAlways, PTL DEF WorkersTypeOK
=============================================================================

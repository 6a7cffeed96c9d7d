---------------------------- MODULE PeerLifecycle ----------------------------
(***************************************************************************)
(* The life of the Peer objects of one listening Connection                *)
(* (network/connection.cpp, network/connectionthreads.cpp): they are       *)
(* created by the receive thread, used by every thread through PeerHelper  *)
(* handles that count their uses, and deleted when a timeout, a            *)
(* disconnection or a DISCO packet removes them and the last handle is     *)
(* gone.  The events the two threads queue tell the application of it.     *)
(*                                                                         *)
(* A peer stands for its object and for its id: that two peers never have  *)
(* the same id at a time is a matter of createPeer (PeerIdentity).         *)
(* Whether a peer has timed out is a matter of clocks: any may have.       *)
(***************************************************************************)
EXTENDS Integers, Sequences, FiniteSets

CONSTANTS
  Peers,       (* the peers that may come                                  *)
  AppThreads,  (* threads of the application that ask for peer statistics  *)
  None,        (* no peer                                                  *)
  MaxData      (* bound: packets with data                                 *)

ASSUME PeerLifecycleAssumption ==
  /\ IsFiniteSet(Peers)
  /\ IsFiniteSet(AppThreads)
  /\ AppThreads \cap {"send", "receive", "process"} = {}
  /\ None \notin Peers
  /\ MaxData \in Nat

(* The PeerHelpers: one of the send thread, one of the receive thread with *)
(* another one in processPacket, one of each thread of the application.    *)
Helpers == {"send", "receive", "process"} \union AppThreads

(* The threads that delete peers.                                          *)
Deleters == {"send", "receive"}

VARIABLES
  m_peers,            (* the connection's peers                            *)
  created,            (* the peers that have been created                  *)
  allocated,          (* the objects that exist                            *)
  m_usage,
  m_pending_deletion,
  m_pending_disconnect,
  helper,             (* the peer each PeerHelper holds                    *)
  deleting,           (* the deletePeer a thread is in, and how far it is  *)
  phase,              (* where the send thread is in its loop              *)
  collected,          (* the peers it will remove at the end of the phase  *)
  stage,              (* where the receive thread is with a packet          *)
  result,             (* the receive thread has data to report, of a peer  *)
  m_event_queue,
  told,               (* the events the application has taken              *)
  data,               (* packets with data received                        *)
  connection          (* "open", "stopping" or "gone"                      *)

peerVars == <<m_peers, created, allocated, m_usage, m_pending_deletion>>
vars == <<peerVars, m_pending_disconnect, helper, deleting, phase, collected,
          stage, result, m_event_queue, told, data, connection>>

Event == [type : {"PEER_ADDED", "DATA_RECEIVED", "PEER_REMOVED"},
          peer : Peers]

NotDeleting == [peer |-> None, step |-> "none"]

Init ==
  /\ m_peers = {} /\ created = {} /\ allocated = {}
  /\ m_usage = [p \in Peers |-> 0]
  /\ m_pending_deletion = {}
  /\ m_pending_disconnect = {}
  /\ helper = [h \in Helpers |-> None]
  /\ deleting = [t \in Deleters |-> NotDeleting]
  /\ phase = "timeouts"
  /\ collected = {}
  /\ stage = "idle"
  /\ result = None
  /\ m_event_queue = <<>>
  /\ told = <<>>
  /\ data = 0
  /\ connection = "open"

-----------------------------------------------------------------------------
(* Handles.                                                                *)

(* getPeerNoEx and the constructor of PeerHelper, under m_peers_mutex: a   *)
(* handle on a peer of the map.  The variant forgets to count it.          *)
GetPeer_Uncounted(h, p) ==
  /\ helper[h] = None
  /\ p \in m_peers
  /\ helper' = [helper EXCEPT ![h] = p]
  /\ UNCHANGED peerVars

GetPeer(h, p) ==
  /\ helper[h] = None
  /\ p \in m_peers
  /\ p \notin m_pending_deletion
  /\ helper' = [helper EXCEPT ![h] = p]
  /\ m_usage' = [m_usage EXCEPT ![p] = @ + 1]
  /\ UNCHANGED <<m_peers, created, allocated, m_pending_deletion>>

(* The destructor of PeerHelper, DecUseCount: the last handle of a dropped *)
(* peer deletes it.  The variants delete at zero whether or not the peer   *)
(* was dropped, and never.                                                 *)
ReleasePeer_AtZero(h) ==
  LET p == helper[h]
  IN /\ p # None
     /\ helper' = [helper EXCEPT ![h] = None]
     /\ m_usage' = [m_usage EXCEPT ![p] = @ - 1]
     /\ allocated' = IF m_usage[p] = 1 THEN allocated \ {p} ELSE allocated
     /\ UNCHANGED <<m_peers, created, m_pending_deletion>>

ReleasePeer_Leaking(h) ==
  LET p == helper[h]
  IN /\ p # None
     /\ helper' = [helper EXCEPT ![h] = None]
     /\ m_usage' = [m_usage EXCEPT ![p] = @ - 1]
     /\ UNCHANGED <<m_peers, created, allocated, m_pending_deletion>>

ReleasePeer(h) ==
  LET p == helper[h]
  IN /\ p # None
     /\ helper' = [helper EXCEPT ![h] = None]
     /\ m_usage' = [m_usage EXCEPT ![p] = @ - 1]
     /\ allocated' = IF p \in m_pending_deletion /\ m_usage[p] = 1
                     THEN allocated \ {p} ELSE allocated
     /\ UNCHANGED <<m_peers, created, m_pending_deletion>>

-----------------------------------------------------------------------------
(* deletePeer, in its three steps.                                         *)

(* Under m_peers_mutex: find the peer and take it out of the map, or leave *)
(* it to whoever did before.  The variant does not look for it first.      *)
TakeOut_Unchecked(t, p) ==
  /\ deleting[t] = NotDeleting
  /\ m_peers' = m_peers \ {p}
  /\ deleting' = [deleting EXCEPT ![t] = [peer |-> p, step |-> "event"]]
  /\ UNCHANGED <<created, allocated, m_usage, m_pending_deletion>>

TakeOut(t, p) ==
  /\ deleting[t] = NotDeleting
  /\ m_peers' = m_peers \ {p}
  /\ deleting' = IF p \in m_peers
                 THEN [deleting EXCEPT ![t] = [peer |-> p, step |-> "event"]]
                 ELSE deleting
  /\ UNCHANGED <<created, allocated, m_usage, m_pending_deletion>>

(* The event for the application.                                          *)
PutRemovedEvent(t) ==
  /\ deleting[t].step = "event"
  /\ m_event_queue' = Append(m_event_queue,
       [type |-> "PEER_REMOVED", peer |-> deleting[t].peer])
  /\ deleting' = [deleting EXCEPT ![t].step = "drop"]
  /\ UNCHANGED <<peerVars, m_pending_disconnect, helper, phase, collected,
                 stage, result, told, data, connection>>

(* Drop: a peer with handles is left to the last of them.  The variant     *)
(* forgets to ask.                                                         *)
Drop_Now(t) ==
  LET p == deleting[t].peer
  IN /\ deleting[t].step = "drop"
     /\ m_pending_deletion' = m_pending_deletion \union {p}
     /\ allocated' = allocated \ {p}
     /\ deleting' = [deleting EXCEPT ![t] = NotDeleting]
     /\ UNCHANGED <<m_peers, created, m_usage, m_pending_disconnect, helper,
                    phase, collected, stage, result, m_event_queue, told, data,
                    connection>>

Drop(t) ==
  LET p == deleting[t].peer
  IN /\ deleting[t].step = "drop"
     /\ m_pending_deletion' = m_pending_deletion \union {p}
     /\ allocated' = IF m_usage[p] = 0 THEN allocated \ {p} ELSE allocated
     /\ deleting' = [deleting EXCEPT ![t] = NotDeleting]
     /\ UNCHANGED <<m_peers, created, m_usage, m_pending_disconnect, helper,
                    phase, collected, stage, result, m_event_queue, told, data,
                    connection>>

-----------------------------------------------------------------------------
(* The send thread: runTimeouts visits the peers and then removes those    *)
(* that had timed out; the commands mark peers to be disconnected;         *)
(* sendPackets visits the peers and then removes those marked.             *)
SendVisit(p) ==
  /\ phase \in {"timeouts", "commands", "send"}
  /\ GetPeer("send", p)
  /\ UNCHANGED <<m_pending_disconnect, deleting, phase, collected, stage, result,
                 m_event_queue, told, data, connection>>

SendCollect ==
  /\ \/ phase = "timeouts"
     \/ phase = "send" /\ helper["send"] \in m_pending_disconnect
  /\ ReleasePeer("send")
  /\ collected' = collected \union {helper["send"]}
  /\ UNCHANGED <<m_pending_disconnect, deleting, phase, stage, result, m_event_queue,
                 told, data, connection>>

(* disconnect_peer.                                                        *)
SendMark ==
  /\ phase = "commands"
  /\ ReleasePeer("send")
  /\ m_pending_disconnect' = m_pending_disconnect \union {helper["send"]}
  /\ UNCHANGED <<deleting, phase, collected, stage, result, m_event_queue, told, data,
                 connection>>

(* Nothing of the kind for this peer.                                      *)
SendLeave ==
  /\ phase = "send" => helper["send"] \notin m_pending_disconnect
  /\ ReleasePeer("send")
  /\ UNCHANGED <<m_pending_disconnect, deleting, phase, collected, stage, result,
                 m_event_queue, told, data, connection>>

SendRemove(p) ==
  /\ phase \in {"remove_timed_out", "remove_disconnected"}
  /\ p \in collected
  /\ TakeOut("send", p)
  /\ collected' = collected \ {p}
  /\ UNCHANGED <<m_pending_disconnect, helper, phase, stage, result, m_event_queue,
                 told, data, connection>>

(* Unreliable packets for the peer still wait to be sent.                  *)
SendPostpone(p) ==
  /\ phase = "remove_disconnected"
  /\ p \in collected
  /\ deleting["send"] = NotDeleting
  /\ collected' = collected \ {p}
  /\ UNCHANGED <<peerVars, m_pending_disconnect, helper, deleting, phase,
                 stage, result, m_event_queue, told, data, connection>>

(* On to the next part of run's loop, which ends when the thread is to     *)
(* stop (packetsQueued may put that off).                                  *)
SendNextPhase ==
  /\ helper["send"] = None
  /\ deleting["send"] = NotDeleting
  /\ phase \in {"remove_timed_out", "remove_disconnected"} => collected = {}
  /\ \/ phase = "timeouts" /\ phase' = "remove_timed_out"
     \/ phase = "remove_timed_out" /\ phase' = "commands"
     \/ phase = "commands" /\ phase' = "send"
     \/ phase = "send" /\ phase' = "remove_disconnected"
     \/ phase = "remove_disconnected" /\ phase' = "timeouts"
     \/ /\ phase = "remove_disconnected" /\ phase' = "exited"
        /\ connection = "stopping"
  /\ UNCHANGED <<peerVars, m_pending_disconnect, helper, deleting, collected,
                 stage, result, m_event_queue, told, data, connection>>

-----------------------------------------------------------------------------
(* The receive thread.                                                     *)
ReceiveIdle == stage = "idle" /\ result = None /\ connection # "gone"

(* createPeer: a datagram without peer id from an unknown address.         *)
CreatePeer(p) ==
  /\ ReceiveIdle
  /\ p \notin created
  /\ m_peers' = m_peers \union {p}
  /\ created' = created \union {p}
  /\ allocated' = allocated \union {p}
  /\ m_event_queue' = Append(m_event_queue,
                             [type |-> "PEER_ADDED", peer |-> p])
  /\ UNCHANGED <<m_usage, m_pending_deletion, m_pending_disconnect, helper,
                 deleting, phase, collected, stage, result, told, data, connection>>

(* A datagram of a peer, or a look into its buffers.                       *)
ReceiveFrom(p) ==
  /\ ReceiveIdle
  /\ GetPeer("receive", p)
  /\ stage' = "got"
  /\ UNCHANGED <<m_pending_disconnect, deleting, phase, collected, result,
                 m_event_queue, told, data, connection>>

ProcessPacket ==
  /\ stage = "got"
  /\ GetPeer("process", helper["receive"])
  /\ stage' = "processing"
  /\ UNCHANGED <<m_pending_disconnect, deleting, phase, collected, result,
                 m_event_queue, told, data, connection>>

ProcessData ==
  /\ stage = "processing"
  /\ data < MaxData
  /\ ReleasePeer("process")
  /\ stage' = "done"
  /\ result' = helper["process"]
  /\ data' = data + 1
  /\ UNCHANGED <<m_pending_disconnect, deleting, phase, collected,
                 m_event_queue, told, connection>>

(* CONTROLTYPE_DISCO.                                                      *)
ProcessDisco ==
  /\ stage = "processing"
  /\ TakeOut("receive", helper["process"])
  /\ stage' = "disconnecting"
  /\ UNCHANGED <<m_pending_disconnect, helper, phase, collected, result,
                 m_event_queue, told, data, connection>>

(* Nothing for the application: acknowledgements, pings, packets to        *)
(* buffer, and a DISCO once deletePeer has returned.                       *)
ProcessSilently ==
  /\ \/ stage = "processing"
     \/ stage = "disconnecting" /\ deleting["receive"] = NotDeleting
  /\ ReleasePeer("process")
  /\ stage' = "done"
  /\ UNCHANGED <<m_pending_disconnect, deleting, phase, collected, result,
                 m_event_queue, told, data, connection>>

(* receive puts the event while it holds the peer; for a buffered packet   *)
(* getFromBuffers has let go of it by then.                                *)
PutData ==
  /\ result # None
  /\ m_event_queue' = Append(m_event_queue,
                             [type |-> "DATA_RECEIVED", peer |-> result])
  /\ result' = None
  /\ UNCHANGED <<peerVars, m_pending_disconnect, helper, deleting, phase,
                 collected, stage, told, data, connection>>

(* A packet that is not processed at all has a wrong address, or its peer  *)
(* has gone since.                                                         *)
ReceiveDone ==
  /\ stage \in {"got", "done"}
  /\ ReleasePeer("receive")
  /\ stage' = "idle"
  /\ UNCHANGED <<m_pending_disconnect, deleting, phase, collected, result,
                 m_event_queue, told, data, connection>>

-----------------------------------------------------------------------------
(* The application.                                                        *)

(* getPeerStat, GetPeerAddress.                                            *)
AppAsk(t, p) ==
  /\ connection = "open"
  /\ GetPeer(t, p)
  /\ UNCHANGED <<m_pending_disconnect, deleting, phase, collected, stage, result,
                 m_event_queue, told, data, connection>>

AppDone(t) ==
  /\ ReleasePeer(t)
  /\ UNCHANGED <<m_pending_disconnect, deleting, phase, collected, stage, result,
                 m_event_queue, told, data, connection>>

(* Connection::Receive: the next event goes to the application, through    *)
(* PeerHandler when it is about a peer.                                    *)
AppReceive ==
  /\ connection = "open"
  /\ m_event_queue # <<>>
  /\ told' = Append(told, Head(m_event_queue))
  /\ m_event_queue' = Tail(m_event_queue)
  /\ UNCHANGED <<peerVars, m_pending_disconnect, helper, deleting, phase,
                 collected, stage, result, data, connection>>

(* ~Connection: nobody else uses it any more; the threads are told to stop *)
(* and waited for, then the peers that are left are deleted.               *)
Stop ==
  /\ connection = "open"
  /\ \A t \in AppThreads : helper[t] = None
  /\ connection' = "stopping"
  /\ UNCHANGED <<peerVars, m_pending_disconnect, helper, deleting, phase,
                 collected, stage, result, m_event_queue, told, data>>

DeletePeers ==
  /\ connection = "stopping"
  /\ phase = "exited"
  /\ ReceiveIdle
  /\ allocated' = allocated \ m_peers
  /\ m_peers' = {}
  /\ connection' = "gone"
  /\ UNCHANGED <<created, m_usage, m_pending_deletion, m_pending_disconnect,
                 helper, deleting, phase, collected, stage, result, m_event_queue,
                 told, data>>

-----------------------------------------------------------------------------
DeletePeerStep(t) == PutRemovedEvent(t) \/ Drop(t)

SendThread ==
  \/ \E p \in Peers : SendVisit(p) \/ SendRemove(p) \/ SendPostpone(p)
  \/ SendCollect \/ SendMark \/ SendLeave
  \/ SendNextPhase

ReceiveThread ==
  \/ \E p \in Peers : CreatePeer(p) \/ ReceiveFrom(p)
  \/ ProcessPacket \/ ProcessData \/ ProcessDisco \/ ProcessSilently
  \/ PutData
  \/ ReceiveDone

Application ==
  \/ \E t \in AppThreads : AppDone(t) \/ \E p \in Peers : AppAsk(t, p)
  \/ AppReceive
  \/ Stop
  \/ DeletePeers

Next ==
  \/ SendThread
  \/ ReceiveThread
  \/ Application
  \/ \E t \in Deleters : DeletePeerStep(t)

Spec == Init /\ [][Next]_vars

(* What a thread has begun with a peer it ends: handles do not stay.       *)
Fairness ==
  /\ \A t \in Deleters : WF_vars(DeletePeerStep(t))
  /\ WF_vars(SendCollect \/ SendMark \/ SendLeave)
  /\ WF_vars(ProcessData \/ ProcessSilently)
  /\ WF_vars(ReceiveDone)
  /\ \A t \in AppThreads : WF_vars(AppDone(t))

FairSpec == Spec /\ Fairness

-----------------------------------------------------------------------------
TypeOK ==
  /\ m_peers \subseteq Peers /\ created \subseteq Peers
  /\ allocated \subseteq Peers
  /\ m_usage \in [Peers -> Nat]
  /\ m_pending_deletion \subseteq Peers /\ m_pending_disconnect \subseteq Peers
  /\ helper \in [Helpers -> Peers \union {None}]
  /\ deleting \in [Deleters -> {NotDeleting} \union
                                [peer : Peers, step : {"event", "drop"}]]
  /\ phase \in {"timeouts", "remove_timed_out", "commands", "send",
                "remove_disconnected", "exited"}
  /\ collected \subseteq Peers
  /\ stage \in {"idle", "got", "processing", "disconnecting", "done"}
  /\ result \in Peers \union {None}
  /\ m_event_queue \in Seq(Event) /\ told \in Seq(Event)
  /\ data \in 0 .. MaxData
  /\ connection \in {"open", "stopping", "gone"}

HoldersOf(p) == {h \in Helpers : helper[h] = p}

(* A handle, and a thread inside deletePeer, always refer to an object     *)
(* that exists, however the two threads and the application get in each    *)
(* other's way (PeerHelper, Peer::Drop, Peer::DecUseCount).                *)
NoUseAfterDelete ==
  /\ \A h \in Helpers : helper[h] # None => helper[h] \in allocated
  /\ \A t \in Deleters :
       deleting[t] # NotDeleting => deleting[t].peer \in allocated

(* m_usage is the number of handles; one too few deletes a peer in use,    *)
(* one too many never deletes it.                                          *)
UsageIsHandles == \A p \in allocated : m_usage[p] = Cardinality(HoldersOf(p))

(* FATAL_ERROR_IF(m_usage != 0, "Reference counting failure"), in ~Peer.   *)
NoReferenceCountingFailure ==
  [][\A p \in allocated \ allocated' : m_usage'[p] = 0]_vars

(* All the events so far, those the application has taken first; and which *)
(* of them are of a peer.                                                  *)
EventLog == told \o m_event_queue
EventsOf(p) == {i \in DOMAIN EventLog : EventLog[i].peer = p}
RemovalsOf(p) == {i \in EventsOf(p) : EventLog[i].type = "PEER_REMOVED"}

(* The application hears of a peer before it hears anything else from it,  *)
(* and of its end once.  One packet the receive thread is at when the      *)
(* other thread removes the peer may still follow, and no more than one.   *)
EventsInOrder ==
  \A p \in Peers :
    /\ \A i \in EventsOf(p) :
         EventLog[i].type = "PEER_ADDED" <=> \A j \in EventsOf(p) : i <= j
    /\ \A i, j \in RemovalsOf(p) : i = j
    /\ \A i \in RemovalsOf(p), j, k \in EventsOf(p) : i < j /\ i < k => j = k

(* The application is told of every peer that is gone, as soon as the      *)
(* thread that removes it is through, and of none that is there: the       *)
(* server keeps a client for as long as it has not been told.              *)
RemovalIsTold ==
  connection = "open" =>
    \A p \in created :
      p \notin m_peers <=>
        \/ RemovalsOf(p) # {}
        \/ \E t \in Deleters : deleting[t] = [peer |-> p, step |-> "event"]

EventsAreTrue == EventsInOrder /\ RemovalIsTold

(* Nothing is left allocated when the connection is gone (~Connection      *)
(* deletes the peers of the map only, the others must have gone before).   *)
NothingIsLeft == connection = "gone" => allocated = {}

PeersAreCounted == NoUseAfterDelete /\ UsageIsHandles /\ NothingIsLeft

(* A peer that was removed is deleted in the end: whoever uses it lets go. *)
EventuallyDeleted ==
  \A p \in Peers : (p \in created \ m_peers) ~> (p \notin allocated)

=============================================================================

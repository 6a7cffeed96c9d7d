---------------------------- MODULE PeerIdentity ----------------------------
(***************************************************************************)
(* How a listening Connection names its peers (network/connection.cpp): a  *)
(* client begins as peer 0, nobody; the receive thread finds it by its     *)
(* address or creates a peer for it, with an id of which the client is     *)
(* told by a SET_PEER_ID.  Ids are taken in turn from 16 bits, so that     *)
(* after a wrap 0 and 1 (the server) are given away as well.               *)
(***************************************************************************)
EXTENDS Naturals, FiniteSets, FiniteSetsExt

CONSTANTS
  MAX_UDP_PEERS,      (* 65535, the greatest number an id can be           *)
  Addresses           (* where clients may be                              *)

ASSUME PeerIdentityAssumption == MAX_UDP_PEERS \in Nat /\ MAX_UDP_PEERS > 2

Ids     == 0 .. MAX_UDP_PEERS
Nobody0 == 0          (* PEER_ID_INEXISTENT                                *)
Server1 == 1          (* PEER_ID_SERVER                                    *)

VARIABLES
  m_peers,            (* a function from the ids in use to addresses       *)
  m_peer_ids,         (* how often each id is in this list                 *)
  m_next_remote_peer_id,
  replies,            (* SET_PEER_IDs that may arrive at each address      *)
  m_peer_id,          (* what the client at each address calls itself      *)
  heard,              (* the clients that took a SET_PEER_ID               *)
  nobodies            (* history: the addresses that were given id 0       *)

identityVars == <<m_peers, m_peer_ids, m_next_remote_peer_id, replies, m_peer_id,
                  heard, nobodies>>

IdentityInit ==
  /\ m_peers = [i \in {} |-> CHOOSE a \in Addresses : TRUE]
  /\ m_peer_ids = [i \in Ids |-> 0]
  /\ m_next_remote_peer_id = 2
  /\ replies = [a \in Addresses |-> {}]
  /\ m_peer_id = [a \in Addresses |-> Nobody0] /\ heard = {} /\ nobodies = {}

-----------------------------------------------------------------------------
IdsOf(a) == {i \in DOMAIN m_peers : m_peers[i] = a}

(* The first peer of that address; the map is ordered by id.               *)
lookupPeer(a) == IF IdsOf(a) = {} THEN Nobody0 ELSE Min(IdsOf(a))

ConnectedToServer == Server1 \in DOMAIN m_peers

AddPeer(i, a) ==
  /\ m_peers' = [j \in DOMAIN m_peers \union {i} |-> IF j = i THEN a ELSE m_peers[j]]
  /\ m_peer_ids' = [m_peer_ids EXCEPT ![i] = @ + 1]
  /\ m_next_remote_peer_id' = (i + 1) % MAX_UDP_PEERS
  /\ nobodies' = IF i = Nobody0 THEN nobodies \union {a} ELSE nobodies

(* A variant: the next id is taken without a look at whether it is free.   *)
createPeer_Unsearched(a) == AddPeer(m_next_remote_peer_id, a)

(* The search goes up only: with all the ids above taken, the lower ones   *)
(* are not looked at, and the newcomer is turned away.                     *)
createPeer(a) ==
  LET free == (m_next_remote_peer_id .. MAX_UDP_PEERS) \ DOMAIN m_peers
  IN free # {} /\ AddPeer(Min(free), a)

(* A datagram with id 0: of a client that knows no other yet, of one that  *)
(* was given that id, or late.  It is ignored when someone has the         *)
(* server's id.  One with another id names its peer, or is ignored.        *)
ReceiveFromNobody(a) ==
  /\ lookupPeer(a) = Nobody0 /\ ~ConnectedToServer
  /\ createPeer(a)
  /\ UNCHANGED <<replies, m_peer_id, heard>>

(* CONCMD_CREATE_PEER, and the resends of what it sent and was lost.       *)
SendSetPeerId(i) ==
  /\ i \in DOMAIN m_peers /\ m_peers[i] \notin heard /\ i \notin replies[m_peers[i]]
  /\ replies' = [replies EXCEPT ![m_peers[i]] = @ \union {i}]
  /\ UNCHANGED <<m_peers, m_peer_ids, m_next_remote_peer_id, m_peer_id, heard, nobodies>>

(* Only the first counts: those of other peers of the same address carry   *)
(* the same sequence number, and are old to the client's channel.          *)
ReceiveSetPeerId(a, i) ==
  /\ i \in replies[a] /\ a \notin heard
  /\ m_peer_id' = [m_peer_id EXCEPT ![a] = IF @ = Nobody0 THEN i ELSE @]
  /\ heard' = heard \union {a}
  /\ replies' = [replies EXCEPT ![a] = {}]
  /\ UNCHANGED <<m_peers, m_peer_ids, m_next_remote_peer_id, nobodies>>

(* After a DISCO, a timeout or a kick.                                     *)
deletePeer(i) ==
  /\ i \in DOMAIN m_peers
  /\ m_peers' = [j \in DOMAIN m_peers \ {i} |-> m_peers[j]]
  /\ m_peer_ids' = [m_peer_ids EXCEPT ![i] = @ - 1]
  /\ UNCHANGED <<m_next_remote_peer_id, replies, m_peer_id, heard, nobodies>>

(* A client ends; another one may come at the same address, when nothing   *)
(* for the former is on its way any more.                                  *)
NewClient(a) ==
  /\ a \in heard
  /\ m_peer_id' = [m_peer_id EXCEPT ![a] = Nobody0]
  /\ heard' = heard \ {a} /\ replies' = [replies EXCEPT ![a] = {}]
  /\ UNCHANGED <<m_peers, m_peer_ids, m_next_remote_peer_id, nobodies>>

IdentityNext ==
  \/ \E a \in Addresses : \/ ReceiveFromNobody(a)
                          \/ NewClient(a)
                          \/ \E i \in Ids : ReceiveSetPeerId(a, i)
  \/ \E i \in Ids : SendSetPeerId(i) \/ deletePeer(i)

IdentitySpec == IdentityInit /\ [][IdentityNext]_identityVars

-----------------------------------------------------------------------------
IdentityTypeOK ==
  /\ DOMAIN m_peers \subseteq Ids /\ m_peers \in [DOMAIN m_peers -> Addresses]
  /\ m_peer_ids \in [Ids -> Nat]
  /\ m_next_remote_peer_id \in 0 .. MAX_UDP_PEERS - 1
  /\ replies \in [Addresses -> SUBSET Ids] /\ m_peer_id \in [Addresses -> Ids]
  /\ heard \union nobodies \subseteq Addresses

(* The list of ids names each peer once, so that no peer was overwritten   *)
(* by a later one; and an address has one peer, unless it was given id 0:  *)
(* then lookupPeer's answer means nobody, and each datagram of its client  *)
(* makes another peer (createPeer, lookupPeer).                            *)
IdsAreSound ==
  /\ \A i \in Ids : m_peer_ids[i] = IF i \in DOMAIN m_peers THEN 1 ELSE 0
  /\ \A a \in Addresses \ nobodies : Cardinality(IdsOf(a)) <= 1
=============================================================================

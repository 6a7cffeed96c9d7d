---------------------------- MODULE ProxyTransfer ----------------------------
(***************************************************************************)
(* One proxy and its slave servers (ServerNetworkEngine.cpp): a player     *)
(* joins at the proxy, which may send him on to a slave.  The slave is     *)
(* told after a countdown, and when it answers, the proxy takes the player *)
(* out of its own environment and hands his packets on.  The proxy knows a *)
(* player by the peer id of his connection, a slave by his player id.      *)
(***************************************************************************)
EXTENDS Naturals, Sequences, FiniteSets, SequencesExt

CONSTANTS
  PlayerNames, Nobody,
  SlaveServers, MainServer,
  PeerIds, PlayerIds,    (* both are u16, and may be the same number       *)
  MaxTransfers           (* bound: calls of connect_player_to_other_server *)

ASSUME ProxyAssumption ==
  /\ Nobody \notin PlayerNames /\ MainServer \notin SlaveServers
  /\ PeerIds \subseteq Nat /\ PlayerIds \subseteq Nat /\ MaxTransfers \in Nat

VARIABLES
  player,               (* m_players of the proxy: RemotePlayers by name   *)
  online,               (* m_clients: whose connection a peer is           *)
  SessionsStatus,       (* peers whose packets are handed on, and where to *)
  PlayerInEnvironmentToServer,
  sc_s,                 (* countdowns: all take as long, so they end in    *)
                        (* order                                           *)
  PlayersToInitialize,
  toSlave, toProxy,     (* messages on their way, in order                 *)
  ClientDataTable,      (* of each slave: the players it has               *)
  crash,                (* why the proxy is no more: "no"                  *)
  transfers,
  usedPeers, usedIds,   (* history: ids given out                          *)
  again,                (* history: players sent more than once             *)
  early                 (* history: players who left before the slave had  *)
                        (* answered                                        *)

proxyNet  == <<toSlave, toProxy, ClientDataTable>>
history   == <<transfers, usedPeers, usedIds, again, early>>
sessions  == <<online, SessionsStatus, PlayerInEnvironmentToServer>>
proxyVars == <<player, sessions, sc_s, PlayersToInitialize, proxyNet, crash, history>>

(* sao: "there", "marked" for removal, or "none" (a null pointer).         *)
NoPlayer == [peer |-> 0, player_id |-> 0, sao |-> "none", to_other_server |-> FALSE,
             IsApplied |-> FALSE, ID |-> MainServer]
Known(n) == player[n] # NoPlayer
Message(type, id) == [type |-> type, id |-> id]

(* getPlayer, by player id and by peer id.                                 *)
WithId(id)     == {n \in PlayerNames : Known(n) /\ player[n].player_id = id}
WithPeer(peer) == {n \in PlayerNames : Known(n) /\ player[n].peer = peer}
IsOnline(n)    == Known(n) /\ online[player[n].peer] = n

ProxyInit ==
  /\ player = [n \in PlayerNames |-> NoPlayer]
  /\ online = [e \in PeerIds |-> Nobody]
  /\ SessionsStatus = {}
  /\ PlayerInEnvironmentToServer = [e \in PeerIds |-> MainServer]
  /\ sc_s = <<>> /\ PlayersToInitialize = <<>>
  /\ toSlave = [s \in SlaveServers |-> <<>>] /\ toProxy = [s \in SlaveServers |-> <<>>]
  /\ ClientDataTable = [s \in SlaveServers |-> {}]
  /\ crash = "no"
  /\ transfers = 0 /\ usedPeers = {} /\ usedIds = {} /\ again = {} /\ early = {}

Crashes(why) == /\ crash' = why
                /\ UNCHANGED <<player, sessions, sc_s, PlayersToInitialize, proxyNet, history>>

-----------------------------------------------------------------------------
(* Joining and leaving.                                                    *)

(* StageTwoClientInit, for a name that emergePlayer does not refuse: any   *)
(* RemotePlayer that is still there has a peer id.  Ids are random; that   *)
(* one is drawn twice is left out.                                         *)
emergePlayer(n, peer, id) ==
  /\ peer \notin usedPeers /\ id \notin usedIds
  /\ ~Known(n)
  /\ player' = [player EXCEPT ![n] = [NoPlayer EXCEPT !.peer = peer, !.player_id = id,
                                                      !.sao = "there"]]
  /\ online' = [online EXCEPT ![peer] = n]
  /\ usedPeers' = usedPeers \union {peer} /\ usedIds' = usedIds \union {id}
  /\ UNCHANGED <<SessionsStatus, PlayerInEnvironmentToServer, sc_s, PlayersToInitialize,
                 proxyNet, crash, transfers, again, early>>

Tell(s, type, id) == toSlave' = [toSlave EXCEPT ![s] = Append(@, Message(type, id))]

(* The slave is told only when it has answered (SendDisconnectONLY).       *)
DeleteClient(peer) ==
  LET n == online[peer] IN
  /\ n # Nobody
  /\ online' = [online EXCEPT ![peer] = Nobody]
  /\ SessionsStatus' = SessionsStatus \ {peer}
  /\ PlayerInEnvironmentToServer' = [PlayerInEnvironmentToServer EXCEPT ![peer] = MainServer]
  /\ LET away   == peer \in SessionsStatus /\ player[n].ID # MainServer
         marked == IF player[n].sao = "there" THEN "marked" ELSE player[n].sao
     IN  /\ IF away THEN Tell(player[n].ID, "disconnect", player[n].player_id)
                    ELSE UNCHANGED toSlave
         /\ player' = [player EXCEPT ![n] =
                         [player[n] EXCEPT !.sao = marked,
                                           !.IsApplied = player[n].IsApplied /\ ~away,
                                           !.ID = IF away THEN MainServer ELSE player[n].ID]]
         /\ early' = IF player[n].IsApplied /\ peer \notin SessionsStatus
                     THEN early \union {player[n].player_id} ELSE early
  /\ UNCHANGED <<sc_s, PlayersToInitialize, toProxy, ClientDataTable, crash, transfers,
                 usedPeers, usedIds, again>>

(* A variant that forgets where the player is.                             *)
removeRemovedObjects_All(n) ==
  /\ player[n].sao = "marked"
  /\ player' = [player EXCEPT ![n] = NoPlayer]
  /\ UNCHANGED <<sessions, sc_s, PlayersToInitialize, proxyNet, crash, history>>

(* removeRemovedObjects and unlinkPlayerSessionAndSave: the RemotePlayer   *)
(* goes too, unless it was ever sent to another server.                    *)
removeRemovedObjects(n) ==
  /\ player[n].sao = "marked"
  /\ player' = [player EXCEPT ![n] = IF @.to_other_server THEN [@ EXCEPT !.sao = "none"]
                                     ELSE NoPlayer]
  /\ UNCHANGED <<sessions, sc_s, PlayersToInitialize, proxyNet, crash, history>>

-----------------------------------------------------------------------------
(* SendConnect, when a mod calls connect_player_to_other_server.  A player *)
(* that is being sent already, or away, is taken from that slave, and put  *)
(* in the queue for being initialized at the proxy (SendDisconnect).       *)
SendConnect(n, s) ==
  /\ Known(n) /\ transfers < MaxTransfers
  /\ IF ~IsOnline(n) \/ player[n].sao = "none"
     THEN Crashes("null")                         (* SendRemoveObjectsToClient *)
     ELSE /\ player' = [player EXCEPT ![n] = [@ EXCEPT !.to_other_server = TRUE,
                                                       !.IsApplied = TRUE, !.ID = s]]
          /\ sc_s' = Append(sc_s, [id |-> player[n].player_id, server |-> s])
          /\ IF player[n].IsApplied
             THEN /\ Tell(player[n].ID, "disconnect", player[n].player_id)
                  /\ PlayersToInitialize' = Append(PlayersToInitialize, player[n].peer)
             ELSE UNCHANGED <<toSlave, PlayersToInitialize>>
          /\ again' = again \union {id \in {player[n].player_id} : player[n].to_other_server}
          /\ transfers' = transfers + 1
          /\ UNCHANGED <<sessions, toProxy, ClientDataTable, crash, usedPeers, usedIds, early>>

(* Three seconds later the slave is told (run, _HELPER_SendConnect).  An   *)
(* id that is not known leaves the pointer without a value: as if it were  *)
(* null, or anything else.                                                 *)
CountdownEnds ==
  /\ sc_s # <<>>
  /\ LET it == Head(sc_s)
         found == WithId(it.id)
     IN  \/ /\ \E n \in found : IsOnline(n) /\ player[n].sao = "none"
            /\ Crashes("null")
         \/ /\ found = {}
            /\ Crashes("wild")
         \/ /\ ~\E n \in found : IsOnline(n) /\ player[n].sao = "none"
            /\ sc_s' = Tail(sc_s)
            /\ IF \E n \in found : IsOnline(n) THEN Tell(it.server, "connect", it.id)
                                               ELSE UNCHANGED toSlave
            /\ UNCHANGED <<player, sessions, PlayersToInitialize, toProxy, ClientDataTable,
                           crash, history>>

(* The end of AsyncRunStep: a player is made to play at the proxy again.   *)
InitializePlayer ==
  /\ PlayersToInitialize # <<>>
  /\ LET peer == Head(PlayersToInitialize)
         here == {n \in WithPeer(peer) : player[n].sao # "none"}
     IN  IF here = {} THEN Crashes("null")
         ELSE /\ player' = [n \in PlayerNames |->
                              IF n \in here THEN [player[n] EXCEPT !.IsApplied = FALSE]
                              ELSE player[n]]
              /\ SessionsStatus' = SessionsStatus \ {peer}
              /\ PlayerInEnvironmentToServer' =
                   [PlayerInEnvironmentToServer EXCEPT ![peer] = MainServer]
              /\ PlayersToInitialize' = Tail(PlayersToInitialize)
              /\ UNCHANGED <<online, sc_s, proxyNet, crash, history>>

-----------------------------------------------------------------------------
(* The slaves.                                                             *)

SlaveOnly == UNCHANGED <<player, sessions, sc_s, PlayersToInitialize, crash, history>>
Answer(s, type, id) == toProxy' = [toProxy EXCEPT ![s] = Append(@, Message(type, id))]
Next1(queue, s, type) == queue[s] # <<>> /\ Head(queue[s]).type = type

handleCommand_GotConnect(s) ==
  /\ Next1(toSlave, s, "connect")
  /\ LET id == Head(toSlave[s]).id
     IN  /\ ClientDataTable' = [ClientDataTable EXCEPT ![s] = @ \union {id}]
         /\ Answer(s, "delete SAO", id)
  /\ toSlave' = [toSlave EXCEPT ![s] = Tail(@)]
  /\ SlaveOnly

handleCommand_GotDisconnect(s) ==
  /\ Next1(toSlave, s, "disconnect")
  /\ ClientDataTable' = [ClientDataTable EXCEPT ![s] = @ \ {Head(toSlave[s]).id}]
  /\ toSlave' = [toSlave EXCEPT ![s] = Tail(@)]
  /\ UNCHANGED toProxy /\ SlaveOnly

(* A mod of the slave calls kick_player.                                   *)
SendDisconnectToPlayer(s, id) ==
  /\ id \in ClientDataTable[s]
  /\ ~Contains(toProxy[s], Message("kick", id))
  /\ Answer(s, "kick", id)
  /\ UNCHANGED <<toSlave, ClientDataTable>> /\ SlaveOnly

-----------------------------------------------------------------------------
(* What the proxy does with it (DoApplyEnvironmentToPlayer).               *)

Received(s) == toProxy' = [toProxy EXCEPT ![s] = Tail(@)]

(* 0x68, OnlyDeleteSAO: from now on the slave gets the player's packets.   *)
OnlyDeleteSAO(s) ==
  /\ Next1(toProxy, s, "delete SAO")
  /\ LET found == WithId(Head(toProxy[s]).id)
     IN  IF found = {} THEN Crashes("wild")
         ELSE LET n == CHOOSE m \in found : TRUE
                  peer == player[n].peer
              IN  IF player[n].sao = "none" THEN Crashes("assert")
                  ELSE /\ player' = [player EXCEPT ![n].sao = "marked"]
                       /\ SessionsStatus' = SessionsStatus \union {peer}
                       /\ PlayerInEnvironmentToServer' =
                            [PlayerInEnvironmentToServer EXCEPT ![peer] = s]
                       /\ Received(s)
                       /\ UNCHANGED <<online, sc_s, PlayersToInitialize, toSlave,
                                      ClientDataTable, crash, history>>

(* 0x65 without a server to move to.  The player id is taken for a peer    *)
(* id; and a player that is found is there already, which is fatal to      *)
(* addPlayer ("Peer id not unique").                                       *)
ReturnToProxy(s) ==
  /\ Next1(toProxy, s, "kick")
  /\ IF WithPeer(Head(toProxy[s]).id) # {} THEN Crashes("fatal")
     ELSE /\ Received(s)
          /\ UNCHANGED <<player, sessions, sc_s, PlayersToInitialize, toSlave, ClientDataTable,
                         crash, history>>

ProxyNext ==
  crash = "no" /\
  \/ \E n \in PlayerNames :
       \/ \E peer \in PeerIds, id \in PlayerIds : emergePlayer(n, peer, id)
       \/ \E s \in SlaveServers : SendConnect(n, s)
       \/ removeRemovedObjects(n)
  \/ \E peer \in PeerIds : DeleteClient(peer)
  \/ CountdownEnds \/ InitializePlayer
  \/ \E s \in SlaveServers :
       \/ handleCommand_GotConnect(s) \/ handleCommand_GotDisconnect(s)
       \/ \E id \in PlayerIds : SendDisconnectToPlayer(s, id)
       \/ OnlyDeleteSAO(s) \/ ReturnToProxy(s)

-----------------------------------------------------------------------------
ProxyTypeOK ==
  /\ player \in [PlayerNames ->
       [peer : PeerIds \union {0}, player_id : PlayerIds \union {0},
        sao : {"there", "marked", "none"}, to_other_server : BOOLEAN, IsApplied : BOOLEAN,
        ID : SlaveServers \union {MainServer}]]
  /\ online \in [PeerIds -> PlayerNames \union {Nobody}]
  /\ SessionsStatus \subseteq PeerIds
  /\ PlayerInEnvironmentToServer \in [PeerIds -> SlaveServers \union {MainServer}]
  /\ ClientDataTable \in [SlaveServers -> SUBSET PlayerIds]
  /\ crash \in {"no", "null", "wild", "assert", "fatal"}
  /\ usedPeers \subseteq PeerIds /\ again \union early \subseteq usedIds

(* A player whose packets go to a slave is on that slave, and on his way   *)
(* out of the proxy's environment, if he is sent but once.                 *)
RedirectedToHisServer ==
  \A n \in PlayerNames :
    IsOnline(n) /\ player[n].peer \in SessionsStatus /\ player[n].player_id \notin again =>
      LET s == PlayerInEnvironmentToServer[player[n].peer]
      IN  /\ player[n].IsApplied /\ player[n].ID = s
          /\ player[n].player_id \in ClientDataTable[s]
          /\ player[n].sao # "there"

(* A slave has no player who is not online, unless it will be told, or he  *)
(* left before it had answered: then nobody ever tells it.                 *)
NoGhosts ==
  \A s \in SlaveServers : \A id \in ClientDataTable[s] \ (again \union early) :
    \/ \E n \in WithId(id) : IsOnline(n)
    \/ Contains(toSlave[s], Message("disconnect", id))

(* A name that is neither online nor about to be free is blocked by a      *)
(* RemotePlayer that nobody will delete: of someone who was sent away.     *)
OnlyTravellersAreStuck ==
  \A n \in PlayerNames :
    Known(n) /\ ~IsOnline(n) /\ player[n].sao # "marked" => player[n].to_other_server

(* The proxy comes to an end only with a mod that sends one who is away or *)
(* gone, a player who left early, or a player id that is a peer id.        *)
CrashesHaveCause ==
  /\ crash = "wild" => FALSE
  /\ crash = "assert" => early \union again # {}
  /\ crash = "fatal" => usedIds \intersect usedPeers # {}

PlayersAreSomewhere ==
  RedirectedToHisServer /\ NoGhosts /\ OnlyTravellersAreStuck /\ CrashesHaveCause

(* assert(playersao) in OnlyDeleteSAO: the player who is to leave the      *)
(* proxy's environment is in it.                                           *)
SaoIsThere == crash # "assert"
=============================================================================

----------------------------- MODULE ModChannels -----------------------------
(***************************************************************************)
(* A channel for the messages of mods (modchannels.cpp): the server keeps  *)
(* who listens to it by peer id, a client whether it joined and may write; *)
(* both sides' mods join, leave and send.  Each direction is a reliable    *)
(* channel (OrderedDelivery).  Channels are independent of each other, so  *)
(* one of them is enough: leaveAllChannels treats all alike.               *)
(***************************************************************************)
EXTENDS Naturals, Sequences, SequencesExt

CONSTANTS
  ChannelClients,     (* clients that come and go                          *)
  SessionIds,         (* the peer ids they get                             *)
  NoSession,
  MaxWaiting          (* bound: packets each client has on the way         *)

PEER_ID_SERVER == 1

ASSUME ModChannelsAssumption ==
  /\ NoSession \notin SessionIds \union {PEER_ID_SERVER}
  /\ PEER_ID_SERVER \notin SessionIds
  /\ MaxWaiting \in [ChannelClients -> Nat]

VARIABLES
  enable_mod_channels,
  channel,            (* the server's: registered, state, consumers        *)
  session,            (* the peer id of each client, while it is in game   *)
  leaving,            (* clients that DisconnectPeer was called for        *)
  asking, telling,    (* packets from and to each client; those to it that *)
                      (* only its mods are told of are all "NOTICE"s       *)
  mine,               (* the client's channel: "none", "init" or           *)
                      (* "read_write"                                      *)
  inherited           (* history: clients whose id was a consumer before   *)
                      (* they came                                         *)

modChannelVars == <<enable_mod_channels, channel, session, leaving, asking, telling,
                    mine, inherited>>
clientSide   == <<asking, mine>>
whoIsThere   == <<enable_mod_channels, session, leaving, inherited>>

Unregistered == [registered |-> FALSE, state |-> "init", consumers |-> {}]

ModChannelsInit ==
  /\ enable_mod_channels \in BOOLEAN
  /\ channel = Unregistered
  /\ session = [c \in ChannelClients |-> NoSession] /\ leaving = {}
  /\ asking = [c \in ChannelClients |-> <<>>]
  /\ telling = [c \in ChannelClients |-> <<>>]
  /\ mine = [c \in ChannelClients |-> "none"]
  /\ inherited = {}

-----------------------------------------------------------------------------
(* ModChannelMgr: what a channel becomes.                                  *)

Joined(ch, p) == [ch EXCEPT !.registered = TRUE, !.consumers = @ \union {p}]

(* A channel without consumers is removed, by leaveChannel only.           *)
Left(ch, p) == IF ch.consumers \subseteq {p} THEN Unregistered
               ELSE [ch EXCEPT !.consumers = @ \ {p}]

LeftAll(ch, p) == [ch EXCEPT !.consumers = @ \ {p}]

-----------------------------------------------------------------------------
(* A client.                                                               *)

InGame(c) == session[c] # NoSession

(* The bound: so many packets are on the way to a client and from it.      *)
HasRoom(c) == Len(asking[c]) + Len(telling[c]) < MaxWaiting[c]

ClientSends(c, pkt) ==
  /\ InGame(c) /\ HasRoom(c)
  /\ asking' = [asking EXCEPT ![c] = Append(@, pkt)]
  /\ UNCHANGED <<channel, telling, whoIsThere>>

clientJoinModChannel(c) ==
  /\ mine[c] = "none"
  /\ mine' = [mine EXCEPT ![c] = "init"] /\ ClientSends(c, "JOIN")

clientLeaveModChannel(c) ==
  /\ mine[c] # "none"
  /\ mine' = [mine EXCEPT ![c] = "none"] /\ ClientSends(c, "LEAVE")

clientSendModChannelMessage(c) ==
  mine[c] = "read_write" /\ ClientSends(c, "MSG") /\ UNCHANGED mine

AfterSignal(before, signal) ==
  CASE signal = "JOIN_OK" /\ before # "none" -> "read_write"
    [] signal = "JOIN_FAILURE" -> "none"
    [] OTHER -> before

handleSignal(c) ==
  /\ telling[c] # <<>>
  /\ mine' = [mine EXCEPT ![c] = AfterSignal(@, Head(telling[c]))]
  /\ telling' = [telling EXCEPT ![c] = Tail(@)]
  /\ UNCHANGED <<channel, asking, whoIsThere>>

-----------------------------------------------------------------------------
(* The server.                                                             *)

Handled(c, pkt) ==
  /\ asking[c] # <<>> /\ Head(asking[c]) = pkt
  /\ asking' = [asking EXCEPT ![c] = Tail(@)]
  /\ UNCHANGED <<mine, whoIsThere>>

Reply(c, signal) == telling' = [telling EXCEPT ![c] = Append(@, signal)]

handleCommand_ModChannelJoin(c) ==
  /\ Handled(c, "JOIN")
  /\ channel' = IF enable_mod_channels THEN Joined(channel, session[c]) ELSE channel
  /\ Reply(c, IF enable_mod_channels /\ session[c] \notin channel.consumers
               THEN "JOIN_OK" ELSE "JOIN_FAILURE")

handleCommand_ModChannelLeave(c) ==
  /\ Handled(c, "LEAVE")
  /\ channel' = IF enable_mod_channels /\ channel.registered
                THEN Left(channel, session[c]) ELSE channel
  /\ Reply(c, "NOTICE")

(* broadcastModChannelMessage: to every consumer but the one who sent it.  *)
Broadcast(from) ==
  LET others == {c \in ChannelClients : session[c] \in channel.consumers \ {from}}
  IN /\ \A c \in others : HasRoom(c)
     /\ telling' = [c \in ChannelClients |->
                       IF c \in others THEN Append(telling[c], "NOTICE") ELSE telling[c]]

(* Whether the sender is a consumer is not looked at.                      *)
handleCommand_ModChannelMsg(c) ==
  /\ Handled(c, "MSG")
  /\ IF ~enable_mod_channels THEN UNCHANGED telling
     ELSE IF channel.registered THEN Broadcast(session[c])
     ELSE Reply(c, "NOTICE")
  /\ UNCHANGED channel

ServerMod == UNCHANGED <<clientSide, whoIsThere>>

serverJoinModChannel ==
  /\ PEER_ID_SERVER \notin channel.consumers
  /\ channel' = [Joined(channel, PEER_ID_SERVER) EXCEPT !.state = "read_write"]
  /\ UNCHANGED telling /\ ServerMod

serverLeaveModChannel ==
  /\ channel.registered /\ channel' = Left(channel, PEER_ID_SERVER)
  /\ UNCHANGED telling /\ ServerMod

serverSendModChannelMessage ==
  /\ channel.state = "read_write"
  /\ Broadcast(PEER_ID_SERVER) /\ UNCHANGED channel /\ ServerMod

-----------------------------------------------------------------------------
(* Coming and going.                                                       *)

(* Ids come round again, so that one may have been another client's.       *)
Enter(c, p) ==
  /\ ~InGame(c) /\ \A d \in ChannelClients : session[d] # p
  /\ session' = [session EXCEPT ![c] = p]
  /\ inherited' = IF p \in channel.consumers THEN inherited \union {c} ELSE inherited
  /\ UNCHANGED <<enable_mod_channels, channel, leaving, asking, telling, mine>>

(* Server::DisconnectPeer: what the peer has sent is handled all the same  *)
(* until the connection has removed it.                                    *)
DisconnectPeer(c) ==
  /\ InGame(c)
  /\ channel' = LeftAll(channel, session[c])
  /\ leaving' = leaving \union {c}
  /\ UNCHANGED <<enable_mod_channels, session, asking, telling, mine, inherited>>

(* DeleteClient, which asks nothing of the channels: the id of a peer that *)
(* went by itself stays among the consumers.                               *)
DeletePeer(c) ==
  /\ InGame(c)
  /\ session' = [session EXCEPT ![c] = NoSession]
  /\ leaving' = leaving \ {c} /\ inherited' = inherited \ {c}
  /\ asking' = [asking EXCEPT ![c] = <<>>] /\ telling' = [telling EXCEPT ![c] = <<>>]
  /\ mine' = [mine EXCEPT ![c] = "none"]
  /\ UNCHANGED <<enable_mod_channels, channel>>

ModChannelsNext ==
  \/ \E c \in ChannelClients :
       \/ clientJoinModChannel(c) \/ clientLeaveModChannel(c)
       \/ clientSendModChannelMessage(c) \/ handleSignal(c)
       \/ handleCommand_ModChannelJoin(c) \/ handleCommand_ModChannelLeave(c)
       \/ handleCommand_ModChannelMsg(c)
       \/ DisconnectPeer(c) \/ DeletePeer(c)
       \/ \E p \in SessionIds : Enter(c, p)
  \/ serverJoinModChannel \/ serverLeaveModChannel \/ serverSendModChannelMessage

ModChannelsSpec == ModChannelsInit /\ [][ModChannelsNext]_modChannelVars

-----------------------------------------------------------------------------
JoinRequests == {"JOIN", "LEAVE", "MSG"}
JoinSignals == {"JOIN_OK", "JOIN_FAILURE", "NOTICE"}

ModChannelsTypeOK ==
  /\ enable_mod_channels \in BOOLEAN
  /\ channel \in [registered : BOOLEAN, state : {"init", "read_write"},
                  consumers : SUBSET (SessionIds \union {PEER_ID_SERVER})]
  /\ session \in [ChannelClients -> SessionIds \union {NoSession}]
  /\ leaving \union inherited \subseteq {c \in ChannelClients : InGame(c)}
  /\ asking \in [ChannelClients -> Seq(JoinRequests)]
  /\ telling \in [ChannelClients -> Seq(JoinSignals)]
  /\ mine \in [ChannelClients -> {"none", "init", "read_write"}]

(* Whether p is a consumer when the server has handled the first n packets *)
(* of that queue of p's, by the last of them that is not a message.        *)
ListensAfter(p, consumers, queue, n) ==
  \/ p \in consumers /\ \A i \in 1 .. n : queue[i] = "MSG"
  \/ \E i \in 1 .. n : queue[i] = "JOIN" /\ \A j \in i + 1 .. n : queue[j] = "MSG"

(* Whether the server will count c among the consumers when it has handled *)
(* what c has sent.                                                        *)
WillListen(c) == ListensAfter(session[c], channel.consumers, asking[c], Len(asking[c]))

(* A client and the server agree on whether it is in the channel, but for  *)
(* what is on its way, and the server, which does not look, takes messages *)
(* from members only: for a client whose id nobody left in the channel and *)
(* that is not being thrown out (joinModChannel, handleCommand_ModChannel*,*)
(* leaveAllChannels).                                                      *)
MembersAgree ==
  enable_mod_channels =>
    \A c \in ChannelClients \ (leaving \union inherited) :
      InGame(c) =>
        /\ mine[c] # "none" <=> WillListen(c)
        /\ asking[c] # <<>> /\ Head(asking[c]) = "MSG" => session[c] \in channel.consumers
=============================================================================

-------------------------- MODULE ClientJoin_proofs --------------------------
(***************************************************************************)
(* For any number of peers and names: the types are right, a name has at    *)
(* most one session that plays, a client knows no object of a player who is *)
(* gone, and no peer that is gone stays behind.                             *)
(***************************************************************************)
EXTENDS ClientJoin, TLAPS

\* Why a session owns its name.  That the client is active says nothing about the
\* player by itself: it is on_joinplayer that comes with both.
PlayersOwnNames ==
    \A p \in Peers :
        /\ state[p] = "Active" => p \in inGame
        /\ p \in inGame => player[name[p]] = p /\ name[p] \notin leaving

IInv == TypeOK /\ PlayersOwnNames

------------------------------------------------------------------------------
(* What the helpers do *)

LEMMA TellType ==
    ASSUME NetType, NEW p \in Peers, NEW cmd \in Commands, Tell(p, cmd)
    PROVE  inbox' \in [Peers -> Seq(Commands \cup {"added", "removed"})]
BY DEF NetType, Tell

LEMMA ReplyType ==
    ASSUME NetType, NEW p \in Peers, NEW r \in Replies, Reply(p, r)
    PROVE  outbox' \in [Peers -> Seq(Replies)]
BY DEF NetType, Reply

LEMMA StatesAre ==
    States = {"none", "Disconnecting", "Denied", "Created", "AwaitingInit2",
              "HelloSent", "InitDone", "DefinitionsSent", "Active"}
BY DEF States, StateRank

\* An event moves one client, to the state it names or not at all.
LEMMA EventType ==
    ASSUME ClientType, ThreadType, NEW p \in Peers, NEW from, NEW to \in States,
           Event(p, from, to)
    PROVE  /\ state' \in [Peers -> States]
           /\ fatal' \in BOOLEAN
           /\ \A q \in Peers : state'[q] = state[q] \/ (q = p /\ state'[q] = to)
<1>1. state' \in [Peers -> States]
  BY DEF ClientType, Event
<1>2. fatal' \in BOOLEAN
  <2>1. CASE state[p] = from
    BY <2>1 DEF ThreadType, Event
  <2>2. CASE state[p] # from
    BY <2>2, Zenon DEF Event
  <2>3. QED
    BY <2>1, <2>2
<1>3. \A q \in Peers : state'[q] = state[q] \/ (q = p /\ state'[q] = to)
  BY DEF ClientType, Event
<1>4. QED
  BY <1>1, <1>2, <1>3

\* Whoever is denied is not active.
LEMMA DenyType ==
    ASSUME NetType, ClientType, NEW p \in Peers, DenyAccess(p)
    PROVE  /\ outbox' \in [Peers -> Seq(Replies)]
           /\ kicked' \in SUBSET Peers
           /\ state' \in [Peers -> States]
           /\ mech' \in [Peers -> BOOLEAN]
           /\ \A q \in Peers : state'[q] = "Active" => state[q] = "Active"
<1>1. outbox' \in [Peers -> Seq(Replies)]
  BY ReplyType DEF DenyAccess, Replies
<1>2. kicked' \in SUBSET Peers
  BY DEF DenyAccess, NetType
<1>3. state' \in [Peers -> States]
  BY StatesAre DEF DenyAccess, ClientType
<1>4. mech' \in [Peers -> BOOLEAN]
  <2>1. (mech[p] /\ state[p] /= "HelloSent") \in BOOLEAN
    BY Zenon
  <2>2. mech' = [mech EXCEPT ![p] = mech[p] /\ state[p] /= "HelloSent"]
    BY Zenon DEF DenyAccess
  <2> DEFINE v == mech[p] /\ state[p] /= "HelloSent"
  <2> HIDE DEF v
  <2>3. mech' = [mech EXCEPT ![p] = v] /\ v \in BOOLEAN
    BY <2>1, <2>2, Zenon DEF v
  <2>4. QED
    BY <2>3 DEF ClientType
<1>5. \A q \in Peers : state'[q] = "Active" => state[q] = "Active"
  BY DEF DenyAccess, ClientType
<1>6. QED
  BY <1>1, <1>2, <1>3, <1>4, <1>5

\* The invariant's last part follows when the players, the names and Lua's view are
\* left alone and nobody becomes active.
LEMMA NobodyBecomesActive ==
    ASSUME PlayersOwnNames, UNCHANGED <<player, leaving, inGame, name>>,
           \A q \in Peers : state'[q] = "Active" => state[q] = "Active"
    PROVE  PlayersOwnNames'
BY DEF PlayersOwnNames

------------------------------------------------------------------------------
(* The steps of the clients and of the network thread *)

LEMMA InitIsRight == Init => IInv
<1> SUFFICES ASSUME Init PROVE IInv
  OBVIOUS
<1>1. NetType
  BY DEF Init, NetType
<1>2. QueueType
  BY DEF Init, QueueType
<1>3. ThreadType
  BY DEF Init, ThreadType
<1>4. ClientType
  BY StatesAre DEF Init, ClientType, Auths
<1>5. PlayerType
  BY DEF Init, PlayerType
<1>6. PlayersOwnNames
  BY DEF Init, PlayersOwnNames
<1>7. QED
  BY <1>1, <1>2, <1>3, <1>4, <1>5, <1>6 DEF IInv, TypeOK

\* What the clients and the connection do shows only in netVars.
LEMMA NetOnly ==
    ASSUME IInv, NetType', UNCHANGED <<name, queueVars, phase, serving, clientVars,
                                       playerVars, faultVars>>
    PROVE  IInv'
<1>1. QueueType' /\ ThreadType' /\ ClientType'
  BY DEF IInv, TypeOK, QueueType, ThreadType, ClientType, queueVars, clientVars, faultVars
<1>2. PlayerType'
  BY DEF IInv, TypeOK, PlayerType, playerVars
<1>3. PlayersOwnNames'
  BY NobodyBecomesActive DEF IInv, playerVars, clientVars
<1>4. QED
  BY <1>1, <1>2, <1>3 DEF IInv, TypeOK

LEMMA AnswerStep ==
    ASSUME IInv, NEW p \in Peers, NEW reply \in Replies, NEW cmd \in Commands,
           NEW next \in {"auth", "init", "ready"}, Answer(p, reply, cmd, next)
    PROVE  IInv'
<1>1. NetType
  BY DEF IInv, TypeOK
<1>2. inbox' \in [Peers -> Seq(Commands \cup {"added", "removed"})]
  BY <1>1, TellType DEF Answer
<1>3. outbox' \in [Peers -> Seq(Replies)]
  BY <1>1 DEF NetType, Answer, Got
<1>4. cl' \in [Peers -> {"off", "created", "auth", "init", "ready", "playing", "left"}]
  BY <1>1 DEF NetType, Answer
<1>5. NetType'
  BY <1>1, <1>2, <1>3, <1>4 DEF NetType, Answer
<1>6. QED
  BY <1>5, NetOnly DEF Answer

LEMMA ReactStep ==
    ASSUME IInv, NEW p \in Peers, ClientReacts(p)
    PROVE  IInv'
<1>1. CASE GotHelloFirst(p)
  BY <1>1, AnswerStep DEF GotHelloFirst, Replies, Commands
<1>2. CASE GotHelloSrp(p)
  BY <1>2, AnswerStep DEF GotHelloSrp, Replies, Commands
<1>3. CASE GotBytesB(p)
  BY <1>3, AnswerStep DEF GotBytesB, Replies, Commands
<1>4. CASE GotAccept(p)
  BY <1>4, AnswerStep DEF GotAccept, Replies, Commands
<1>5. CASE GotDefinitions(p)
  BY <1>5, AnswerStep DEF GotDefinitions, Replies, Commands
<1>6. QED
  BY <1>1, <1>2, <1>3, <1>4, <1>5 DEF ClientReacts

LEMMA ConnectStep ==
    ASSUME IInv, NEW p \in Peers, Connect(p)
    PROVE  IInv'
<1>1. <<"added">> \in Seq(Commands \cup {"added", "removed"})
  OBVIOUS
<1>2. NetType'
  BY <1>1 DEF IInv, TypeOK, NetType, Connect
<1>3. QED
  BY <1>2, NetOnly DEF Connect

LEMMA SendStep ==
    ASSUME IInv, NEW p \in Peers, SendInit(p) \/ SendGotBlocks(p)
    PROVE  IInv'
<1>1. NetType
  BY DEF IInv, TypeOK
<1>2. inbox' \in [Peers -> Seq(Commands \cup {"added", "removed"})]
  <2>1. "INIT" \in Commands /\ "GOTBLOCKS" \in Commands
    BY DEF Commands
  <2>2. QED
    BY <1>1, <2>1, TellType DEF SendInit, SendGotBlocks
<1>3. NetType'
  BY <1>1, <1>2 DEF NetType, SendInit, SendGotBlocks
<1>4. QED
  BY <1>3, NetOnly DEF SendInit, SendGotBlocks

LEMMA CloseStep ==
    ASSUME IInv, NEW p \in Peers, ClosePeer(p)
    PROVE  IInv'
<1> DEFINE E == Commands \cup {"added", "removed"}
<1>1. NetType
  BY DEF IInv, TypeOK
<1>2. inbox \in [Peers -> Seq(E)] /\ inbox[p] \in Seq(E)
  BY <1>1 DEF NetType
<1>3. inbox' \in [Peers -> Seq(E)]
  <2> DEFINE n == Len(inbox[p])
  <2>1. CASE inbox' = [inbox EXCEPT ![p] = Append(inbox[p], "removed")]
    BY <1>2, <2>1
  <2>2. CASE /\ n > 0
             /\ inbox' = [inbox EXCEPT ![p] =
                             SubSeq(inbox[p], 1, n - 1) \o <<"removed", inbox[p][n]>>]
    <3>1. n \in Nat /\ n > 0 /\ inbox[p][n] \in E
      BY <1>2, <2>2
    <3>2. SubSeq(inbox[p], 1, n - 1) \in Seq(E)
      BY <1>2, <3>1
    <3>3. <<"removed", inbox[p][n]>> \in Seq(E)
      BY <3>1
    <3>4. SubSeq(inbox[p], 1, n - 1) \o <<"removed", inbox[p][n]>> \in Seq(E)
      BY <3>2, <3>3
    <3>5. QED
      BY <1>2, <2>2, <3>4
  <2>3. QED
    BY <2>1, <2>2 DEF ClosePeer
<1>4. <<>> \in Seq(Replies)
  OBVIOUS
<1>5. NetType'
  BY <1>1, <1>3, <1>4 DEF NetType, ClosePeer
<1>6. QED
  BY <1>5, NetOnly DEF ClosePeer

LEMMA ReceiveStep ==
    ASSUME IInv, NEW p \in Peers, Receive(p)
    PROVE  IInv'
<1> DEFINE E == Commands \cup {"added", "removed"}
           e == Head(inbox[p])
<1>1. NetType /\ QueueType /\ ClientType
  BY DEF IInv, TypeOK
<1>2. e \in E /\ Tail(inbox[p]) \in Seq(E)
  BY <1>1 DEF NetType, Receive
<1>3. NetType'
  BY <1>1, <1>2 DEF NetType, Receive
<1>4. QueueType'
  <2>1. CASE e \in Commands
    <3>1. [p |-> p, cmd |-> e] \in [p : Peers, cmd : Commands]
      BY <2>1
    <3>2. packets' = Append(packets, [p |-> p, cmd |-> e]) /\ changes' = changes
      BY <2>1 DEF Receive
    <3>3. QED
      BY <1>1, <3>1, <3>2 DEF QueueType
  <2>2. CASE e \notin Commands
    <3>1. [kind |-> e, p |-> p] \in [kind : {"added", "removed"}, p : Peers]
      BY <1>2, <2>2
    <3>2. changes' = Append(changes, [kind |-> e, p |-> p]) /\ packets' = packets
      BY <2>2 DEF Receive
    <3>3. QED
      BY <1>1, <3>1, <3>2 DEF QueueType
  <2>3. QED
    BY <2>1, <2>2
<1>5. /\ state' \in [Peers -> States]
      /\ \A q \in Peers : state'[q] = "Active" => state[q] = "Active"
  BY <1>1, StatesAre DEF ClientType, Receive
<1>6. ThreadType' /\ ClientType' /\ PlayerType'
  BY <1>5 DEF IInv, TypeOK, ThreadType, ClientType, PlayerType, Receive, playerVars, faultVars
<1>7. PlayersOwnNames'
  BY <1>5, NobodyBecomesActive DEF IInv, Receive, playerVars
<1>8. QED
  BY <1>3, <1>4, <1>6, <1>7 DEF IInv, TypeOK

------------------------------------------------------------------------------
(* The steps of the server thread *)

LEMMA PeerChangeStep ==
    ASSUME IInv, PeerChange
    PROVE  IInv'
<1> DEFINE c == Head(changes)
<1>1. NetType /\ QueueType /\ ThreadType /\ ClientType /\ PlayerType /\ PlayersOwnNames
  BY DEF IInv, TypeOK
<1>2. c \in [kind : {"added", "removed"}, p : Peers] /\ c.p \in Peers
  <2> DEFINE C == [kind : {"added", "removed"}, p : Peers]
  <2>1. changes \in Seq(C) /\ changes # <<>>
    BY <1>1, Zenon DEF QueueType, PeerChange
  <2> HIDE DEF C
  <2>2. Head(changes) \in C
    BY <2>1
  <2>3. QED
    BY <2>2 DEF C
<1>3. NetType' /\ QueueType' /\ ThreadType'
  BY <1>1 DEF NetType, QueueType, ThreadType, PeerChange, netVars, faultVars
<1>4. CASE CreateClient(c.p)
  <2>1. /\ state' \in [Peers -> States]
        /\ \A q \in Peers : state'[q] = "Active" => state[q] = "Active"
    BY <1>1, <1>2, <1>4, StatesAre DEF ClientType, CreateClient
  <2>2. ClientType' /\ PlayerType'
    BY <1>1, <1>4, <2>1 DEF ClientType, PlayerType, CreateClient, playerVars
  <2>3. PlayersOwnNames'
    BY <1>1, <1>4, <2>1, NobodyBecomesActive DEF CreateClient, PeerChange, playerVars, netVars
  <2>4. QED
    BY <1>3, <2>2, <2>3 DEF IInv, TypeOK
<1>5. CASE DeleteClient(c.p)
  <2>1. state' = [state EXCEPT ![c.p] = "none"] /\ state' \in [Peers -> States]
    BY <1>1, <1>2, <1>5, StatesAre DEF ClientType, DeleteClient
  <2>2. ClientType'
    BY <1>1, <1>5, <2>1 DEF ClientType, DeleteClient
  <2>3. PlayerType'
    <3>1. leaving' \in SUBSET {n \in Names : player'[n] /= NoPeer}
      BY <1>1, <1>2, <1>5, ClientJoinAssumption DEF PlayerType, DeleteClient
    <3>2. known' \in [Peers -> SUBSET Names]
      BY <1>1, <1>2, <1>5 DEF PlayerType, DeleteClient
    <3>3. QED
      BY <1>1, <1>5, <3>1, <3>2 DEF PlayerType, DeleteClient
  <2>4. PlayersOwnNames'
    <3> SUFFICES ASSUME NEW q \in Peers
                 PROVE  /\ state'[q] = "Active" => q \in inGame'
                        /\ q \in inGame' => player'[name'[q]] = q /\ name'[q] \notin leaving'
      BY Zenon DEF PlayersOwnNames
    <3>1. name' = name /\ player' = player
      BY <1>5 DEF DeleteClient, PeerChange, netVars
    <3>2. CASE q = c.p
      BY <1>1, <1>5, <2>1, <3>2 DEF ClientType, DeleteClient
    <3>3. CASE q # c.p
      <4>1. state'[q] = "Active" => q \in inGame'
        BY <1>1, <1>2, <1>5, <2>1, <3>3 DEF ClientType, DeleteClient, PlayersOwnNames
      <4>2. q \in inGame' => player[name[q]] = q /\ name[q] \notin leaving'
        BY <1>1, <1>5, <3>3 DEF DeleteClient, PlayersOwnNames
      <4>3. QED
        BY <3>1, <4>1, <4>2
    <3>4. QED
      BY <3>2, <3>3
  <2>5. QED
    BY <1>3, <2>2, <2>3, <2>4 DEF IInv, TypeOK
<1>6. QED
  BY <1>4, <1>5 DEF PeerChange

LEMMA PhaseStep ==
    ASSUME IInv, EndChanges \/ EndPackets
    PROVE  IInv'
<1>1. NetType' /\ QueueType' /\ ThreadType' /\ ClientType' /\ PlayerType'
  BY DEF IInv, TypeOK, NetType, QueueType, ThreadType, ClientType, PlayerType, EndChanges,
         EndPackets, netVars, queueVars, clientVars, playerVars, faultVars
<1>2. PlayersOwnNames'
  BY NobodyBecomesActive DEF IInv, EndChanges, EndPackets, playerVars, clientVars, netVars
<1>3. QED
  BY <1>1, <1>2 DEF IInv, TypeOK

\* A name that is given free has been marked, and no player in the game is.
LEMMA RemoveStep ==
    ASSUME IInv, RemoveObjects
    PROVE  IInv'
<1>1. PlayerType /\ PlayersOwnNames /\ NetType
  BY DEF IInv, TypeOK
<1>2. NetType' /\ QueueType' /\ ThreadType' /\ ClientType'
  BY DEF IInv, TypeOK, NetType, QueueType, ThreadType, ClientType, RemoveObjects,
         netVars, queueVars, clientVars, faultVars
<1>3. player' \in [Names -> Peers \cup {NoPeer}]
  BY <1>1 DEF PlayerType, RemoveObjects
<1>4. leaving' \in SUBSET {n \in Names : player'[n] /= NoPeer}
  BY <1>1 DEF PlayerType, RemoveObjects
<1>5. PlayerType'
  BY <1>1, <1>3, <1>4 DEF PlayerType, RemoveObjects
<1>6. PlayersOwnNames'
  <2> SUFFICES ASSUME NEW p \in Peers
               PROVE  /\ state'[p] = "Active" => p \in inGame'
                      /\ p \in inGame' => player'[name'[p]] = p /\ name'[p] \notin leaving'
    BY Zenon DEF PlayersOwnNames
  <2>1. name' = name /\ state' = state /\ inGame' = inGame /\ name[p] \in Names
    BY <1>1 DEF RemoveObjects, netVars, clientVars, NetType
  <2>2. p \in inGame => player'[name[p]] = p /\ name[p] \notin leaving'
    BY <1>1, <2>1 DEF PlayersOwnNames, RemoveObjects, GoesNow, PlayerType
  <2>3. QED
    BY <1>1, <2>1, <2>2 DEF PlayersOwnNames
<1>7. QED
  BY <1>2, <1>5, <1>6 DEF IInv, TypeOK

LEMMA KickStep ==
    ASSUME IInv, NEW p \in Peers, Kick(p)
    PROVE  IInv'
<1>1. NetType /\ ClientType
  BY DEF IInv, TypeOK
<1>2. /\ outbox' \in [Peers -> Seq(Replies)]
      /\ kicked' \in SUBSET Peers
      /\ state' \in [Peers -> States]
      /\ mech' \in [Peers -> BOOLEAN]
      /\ \A q \in Peers : state'[q] = "Active" => state[q] = "Active"
  BY <1>1, DenyType DEF Kick
<1>3. NetType' /\ QueueType' /\ ThreadType' /\ ClientType' /\ PlayerType'
  BY <1>2 DEF IInv, TypeOK, NetType, QueueType, ThreadType, ClientType, PlayerType, Kick,
              queueVars, playerVars, faultVars
<1>4. PlayersOwnNames'
  BY <1>2, NobodyBecomesActive DEF IInv, Kick, playerVars
<1>5. QED
  BY <1>3, <1>4 DEF IInv, TypeOK

LEMMA UpdateStep ==
    ASSUME IInv, UpdateObjects
    PROVE  IInv'
<1>1. NetType' /\ QueueType' /\ ThreadType' /\ ClientType'
  BY DEF IInv, TypeOK, NetType, QueueType, ThreadType, ClientType, UpdateObjects,
         netVars, queueVars, clientVars, faultVars
<1>2. known' \in [Peers -> SUBSET Names]
  <2>1. known \in [Peers -> SUBSET Names]
    BY DEF IInv, TypeOK, PlayerType
  <2>2. PICK seen \in [Peers -> SUBSET Names] :
          known' = [p \in Peers |->
                       IF AtLeast(p, "DefinitionsSent") /\ player[name[p]] = p
                       THEN {n \in seen[p] \cup {name[p]} :
                                player[n] /= NoPeer /\ n \notin leaving}
                       ELSE known[p]]
    BY DEF UpdateObjects
  <2>3. \A p \in Peers : name[p] \in Names
    BY DEF IInv, TypeOK, NetType
  <2>4. QED
    BY <2>1, <2>2, <2>3
<1>3. PlayerType'
  BY <1>2 DEF IInv, TypeOK, PlayerType, UpdateObjects
<1>4. PlayersOwnNames'
  BY NobodyBecomesActive DEF IInv, UpdateObjects, netVars, clientVars
<1>5. QED
  BY <1>1, <1>3, <1>4 DEF IInv, TypeOK

------------------------------------------------------------------------------
(* The packets *)

\* What handlers of packets have in common: they may deny a client or change its
\* state, and leave the players alone.
LEMMA HandlerStep ==
    ASSUME IInv, packets # <<>>, packets' = Tail(packets),
           UNCHANGED <<conn, inbox, cl, name, changes, nullUsed, player, leaving, known, inGame>>,
           kicked' \in SUBSET Peers, outbox' \in [Peers -> Seq(Replies)],
           phase' \in {"changes", "env", "packets"}, serving' \in Peers \cup {NoPeer},
           fatal' \in BOOLEAN, authDB' \in SUBSET Names, ClientType',
           \A q \in Peers : state'[q] = "Active" => state[q] = "Active"
    PROVE  IInv'
<1>1. NetType'
  BY DEF IInv, TypeOK, NetType
<1>2. QueueType'
  <2> DEFINE C == [p : Peers, cmd : Commands]
  <2>1. packets \in Seq(C)
    BY DEF IInv, TypeOK, QueueType
  <2> HIDE DEF C
  <2>2. packets' \in Seq(C)
    BY <2>1
  <2>3. QED
    BY <2>2 DEF IInv, TypeOK, QueueType, C
<1>3. ThreadType' /\ PlayerType'
  BY DEF IInv, TypeOK, ThreadType, PlayerType
<1>4. PlayersOwnNames'
  BY NobodyBecomesActive DEF IInv
<1>5. QED
  BY <1>1, <1>2, <1>3, <1>4 DEF IInv, TypeOK

LEMMA NoClientStep ==
    ASSUME IInv, NEW p \in Peers, NoClient(p)
    PROVE  IInv'
<1>1. packets # <<>> /\ packets' = Tail(packets)
  BY DEF NoClient, AtHead
<1>2. /\ kicked' \in SUBSET Peers /\ outbox' \in [Peers -> Seq(Replies)]
      /\ serving' \in Peers \cup {NoPeer} /\ phase' \in {"changes", "env", "packets"}
      /\ authDB' \in SUBSET Names /\ ClientType'
  BY DEF NoClient, Abandon, IInv, TypeOK, NetType, ThreadType, PlayerType, ClientType,
         netVars, clientVars, playerVars
<1>3. fatal' \in BOOLEAN
  BY DEF NoClient, IInv, TypeOK, ThreadType, faultVars
<1>4. QED
  BY <1>1, <1>2, <1>3, HandlerStep DEF NoClient, netVars, clientVars, playerVars, faultVars

LEMMA LookUpStep ==
    ASSUME IInv, NEW p \in Peers, LookUp(p)
    PROVE  IInv'
<1>1. NetType' /\ QueueType' /\ ThreadType' /\ ClientType' /\ PlayerType'
  BY DEF IInv, TypeOK, NetType, QueueType, ThreadType, ClientType, PlayerType, LookUp,
         netVars, queueVars, clientVars, playerVars, faultVars
<1>2. PlayersOwnNames'
  BY NobodyBecomesActive DEF IInv, LookUp, playerVars, clientVars, netVars
<1>3. QED
  BY <1>1, <1>2 DEF IInv, TypeOK

\* What Handle leaves to the handler.
LEMMA HandleFrame ==
    ASSUME IInv, NEW p \in Peers, NEW cmd \in Commands, Handle(p, cmd)
    PROVE  /\ packets # <<>> /\ packets' = Tail(packets)
           /\ UNCHANGED <<conn, inbox, cl, name, changes, nullUsed>>
           /\ serving' \in Peers \cup {NoPeer}
BY DEF Handle, AtHead, IInv, TypeOK, ThreadType

LEMMA AcceptType ==
    ASSUME IInv, NEW p \in Peers, AcceptAuth(p)
    PROVE  /\ kicked' \in SUBSET Peers /\ outbox' \in [Peers -> Seq(Replies)]
           /\ fatal' \in BOOLEAN
           /\ state' \in [Peers -> States] /\ mech' \in [Peers -> BOOLEAN]
           /\ \A q \in Peers : state'[q] = "Active" => state[q] = "Active"
<1>1. NetType /\ ThreadType /\ ClientType
  BY DEF IInv, TypeOK
<1>2. "AwaitingInit2" \in States /\ "AUTH_ACCEPT" \in Replies
  BY StatesAre DEF Replies
<1>3. /\ state' \in [Peers -> States] /\ fatal' \in BOOLEAN
      /\ \A q \in Peers : state'[q] = state[q] \/ (q = p /\ state'[q] = "AwaitingInit2")
  BY <1>1, <1>2, EventType DEF AcceptAuth
<1>4. kicked' \in SUBSET Peers /\ outbox' \in [Peers -> Seq(Replies)]
  BY <1>1, <1>2, ReplyType DEF AcceptAuth, NetType
<1>5. mech' \in [Peers -> BOOLEAN]
  BY <1>1 DEF AcceptAuth, ClientType
<1>6. QED
  BY <1>3, <1>4, <1>5
LEMMA HandleInitStep ==
    ASSUME IInv, NEW p \in Peers, HandleInit(p)
    PROVE  IInv'
<1>1. NetType /\ ThreadType /\ ClientType /\ PlayerType
  BY DEF IInv, TypeOK
<1>2. /\ packets # <<>> /\ packets' = Tail(packets)
      /\ UNCHANGED <<conn, inbox, cl, name, changes, nullUsed>>
      /\ serving' \in Peers \cup {NoPeer}
  <2>1. "INIT" \in Commands
    BY DEF Commands
  <2>2. QED
    BY <2>1, HandleFrame DEF HandleInit
<1>3. /\ UNCHANGED <<player, leaving, known, inGame>>
      /\ authDB' \in SUBSET Names
      /\ phase' \in {"changes", "env", "packets"}
  BY <1>1 DEF HandleInit, Abandon, PlayerType, ThreadType, playerVars
<1>4. /\ kicked' \in SUBSET Peers /\ outbox' \in [Peers -> Seq(Replies)]
      /\ fatal' \in BOOLEAN /\ ClientType'
      /\ \A q \in Peers : state'[q] = "Active" => state[q] = "Active"
  <2>1. CASE UNCHANGED <<kicked, outbox, clientVars, fatal>>
    BY <1>1, <2>1 DEF NetType, ThreadType, ClientType, clientVars
  <2>2. CASE DenyAccess(p) /\ UNCHANGED <<allowed, fatal>>
    BY <1>1, <2>2, DenyType DEF ThreadType, ClientType
  <2>3. CASE /\ LET auth == IF name[p] \in authDB THEN "srp" ELSE "first" IN
                /\ allowed' = [allowed EXCEPT ![p] = auth]
                /\ Reply(p, IF auth = "srp" THEN "HELLO_srp" ELSE "HELLO_first")
             /\ mech' = [mech EXCEPT ![p] = FALSE]
             /\ Event(p, "Created", "HelloSent")
             /\ UNCHANGED kicked
    <3>1. /\ state' \in [Peers -> States] /\ fatal' \in BOOLEAN
          /\ \A q \in Peers : state'[q] = state[q] \/ (q = p /\ state'[q] = "HelloSent")
      BY <1>1, <2>3, EventType, StatesAre
    <3>2. PICK r \in {"HELLO_srp", "HELLO_first"} : Reply(p, r)
      BY <2>3
    <3>3. outbox' \in [Peers -> Seq(Replies)]
      BY <1>1, <3>2, ReplyType DEF Replies
    <3>4. allowed' \in [Peers -> Auths]
      BY <1>1, <2>3 DEF ClientType, Auths
    <3>5. mech' \in [Peers -> BOOLEAN] /\ kicked' \in SUBSET Peers
      BY <1>1, <2>3 DEF ClientType, NetType
    <3>6. QED
      BY <3>1, <3>3, <3>4, <3>5 DEF ClientType
  <2>4. QED
    BY <2>1, <2>2, <2>3 DEF HandleInit
<1>5. QED
  BY <1>2, <1>3, <1>4, HandlerStep

LEMMA HandleFirstSrpStep ==
    ASSUME IInv, NEW p \in Peers, HandleFirstSrp(p)
    PROVE  IInv'
<1>1. NetType /\ ThreadType /\ ClientType /\ PlayerType
  BY DEF IInv, TypeOK
<1>2. /\ packets # <<>> /\ packets' = Tail(packets)
      /\ UNCHANGED <<conn, inbox, cl, name, changes, nullUsed>>
      /\ serving' \in Peers \cup {NoPeer}
  <2>1. "FIRST_SRP" \in Commands
    BY DEF Commands
  <2>2. QED
    BY <2>1, HandleFrame DEF HandleFirstSrp
<1>3. /\ UNCHANGED <<player, leaving, known, inGame>>
      /\ phase' \in {"changes", "env", "packets"} /\ authDB' \in SUBSET Names
  BY <1>1 DEF HandleFirstSrp, PlayerType, ThreadType, NetType
<1>4. /\ kicked' \in SUBSET Peers /\ outbox' \in [Peers -> Seq(Replies)]
      /\ fatal' \in BOOLEAN /\ ClientType'
      /\ \A q \in Peers : state'[q] = "Active" => state[q] = "Active"
  <2>1. CASE UNCHANGED <<kicked, outbox, state, mech, fatal>>
    BY <1>1, <2>1 DEF HandleFirstSrp, NetType, ThreadType, ClientType
  <2>2. CASE DenyAccess(p) /\ UNCHANGED fatal
    BY <1>1, <2>2, DenyType DEF HandleFirstSrp, ThreadType, ClientType
  <2>3. CASE AcceptAuth(p)
    BY <1>1, <2>3, AcceptType DEF HandleFirstSrp, ClientType
  <2>4. QED
    BY <2>1, <2>2, <2>3 DEF HandleFirstSrp
<1>5. QED
  BY <1>2, <1>3, <1>4, HandlerStep

LEMMA HandleBytesAStep ==
    ASSUME IInv, NEW p \in Peers, HandleBytesA(p)
    PROVE  IInv'
<1>1. NetType /\ ThreadType /\ ClientType /\ PlayerType
  BY DEF IInv, TypeOK
<1>2. /\ packets # <<>> /\ packets' = Tail(packets)
      /\ UNCHANGED <<conn, inbox, cl, name, changes, nullUsed>>
      /\ serving' \in Peers \cup {NoPeer}
  <2>1. "SRP_BYTES_A" \in Commands
    BY DEF Commands
  <2>2. QED
    BY <2>1, HandleFrame DEF HandleBytesA
<1>3. /\ UNCHANGED <<player, leaving, known, inGame>> /\ authDB' \in SUBSET Names
      /\ phase' \in {"changes", "env", "packets"} /\ fatal' \in BOOLEAN
  BY <1>1 DEF HandleBytesA, PlayerType, ThreadType, playerVars
<1>4. /\ kicked' \in SUBSET Peers /\ outbox' \in [Peers -> Seq(Replies)]
      /\ ClientType'
      /\ \A q \in Peers : state'[q] = "Active" => state[q] = "Active"
  <2>1. CASE UNCHANGED <<kicked, outbox, state, mech>>
    BY <1>1, <2>1 DEF HandleBytesA, NetType, ClientType
  <2>2. CASE DenyAccess(p)
    BY <1>1, <2>2, DenyType DEF HandleBytesA, ClientType
  <2>3. CASE /\ mech' = [mech EXCEPT ![p] = TRUE]
             /\ Reply(p, "SRP_BYTES_S_B")
             /\ UNCHANGED <<kicked, state>>
    <3>1. outbox' \in [Peers -> Seq(Replies)]
      BY <1>1, <2>3, ReplyType DEF Replies
    <3>2. QED
      BY <1>1, <2>3, <3>1 DEF HandleBytesA, NetType, ClientType
  <2>4. QED
    BY <2>1, <2>2, <2>3 DEF HandleBytesA
<1>5. QED
  BY <1>2, <1>3, <1>4, HandlerStep

LEMMA HandleBytesMStep ==
    ASSUME IInv, NEW p \in Peers, HandleBytesM(p)
    PROVE  IInv'
<1>1. NetType /\ ThreadType /\ ClientType /\ PlayerType
  BY DEF IInv, TypeOK
<1>2. /\ packets # <<>> /\ packets' = Tail(packets)
      /\ UNCHANGED <<conn, inbox, cl, name, changes, nullUsed>>
      /\ serving' \in Peers \cup {NoPeer}
  <2>1. "SRP_BYTES_M" \in Commands
    BY DEF Commands
  <2>2. QED
    BY <2>1, HandleFrame DEF HandleBytesM
<1>3. /\ UNCHANGED <<player, leaving, known, inGame>> /\ authDB' \in SUBSET Names
      /\ phase' \in {"changes", "env", "packets"}
  BY <1>1 DEF HandleBytesM, PlayerType, ThreadType, playerVars
<1>4. /\ kicked' \in SUBSET Peers /\ outbox' \in [Peers -> Seq(Replies)]
      /\ fatal' \in BOOLEAN /\ ClientType'
      /\ \A q \in Peers : state'[q] = "Active" => state[q] = "Active"
  <2>1. CASE UNCHANGED <<kicked, outbox, state, mech, fatal>>
    BY <1>1, <2>1 DEF HandleBytesM, NetType, ThreadType, ClientType
  <2>2. CASE DenyAccess(p) /\ UNCHANGED fatal
    BY <1>1, <2>2, DenyType DEF HandleBytesM, ThreadType, ClientType
  <2>3. CASE AcceptAuth(p)
    BY <1>1, <2>3, AcceptType DEF HandleBytesM, ClientType
  <2>4. QED
    BY <2>1, <2>2, <2>3 DEF HandleBytesM
<1>5. QED
  BY <1>2, <1>3, <1>4, HandlerStep

LEMMA HandleInit2Step ==
    ASSUME IInv, NEW p \in Peers, HandleInit2(p)
    PROVE  IInv'
<1>1. NetType /\ ThreadType /\ ClientType /\ PlayerType
  BY DEF IInv, TypeOK
<1>2. /\ packets # <<>> /\ packets' = Tail(packets)
      /\ UNCHANGED <<conn, inbox, cl, name, changes, nullUsed>>
      /\ serving' \in Peers \cup {NoPeer}
  <2>1. "INIT2" \in Commands
    BY DEF Commands
  <2>2. QED
    BY <2>1, HandleFrame DEF HandleInit2
<1>3. /\ UNCHANGED <<player, leaving, known, inGame>> /\ authDB' \in SUBSET Names
      /\ phase' \in {"changes", "env", "packets"} /\ kicked' \in SUBSET Peers
  BY <1>1 DEF HandleInit2, Abandon, PlayerType, ThreadType, NetType, playerVars
<1>4. outbox' \in [Peers -> Seq(Replies)]
  BY <1>1, ReplyType DEF HandleInit2, Replies
<1>5. /\ state' \in [Peers -> States] /\ fatal' \in BOOLEAN
      /\ \A q \in Peers : state'[q] = state[q] \/ (q = p /\ state'[q] = "DefinitionsSent")
  BY <1>1, EventType, StatesAre DEF HandleInit2
<1>6. ClientType'
  BY <1>1, <1>5 DEF HandleInit2, ClientType
<1>7. QED
  BY <1>2, <1>3, <1>4, <1>5, <1>6, HandlerStep

LEMMA HandleGotBlocksStep ==
    ASSUME IInv, NEW p \in Peers, HandleGotBlocks(p)
    PROVE  IInv'
<1>1. packets # <<>> /\ packets' = Tail(packets)
  BY DEF HandleGotBlocks, Resume, AtHead
<1>2. NetType' /\ ClientType' /\ PlayerType'
  BY DEF IInv, TypeOK, NetType, ClientType, PlayerType, HandleGotBlocks, Resume
<1>3. QueueType'
  <2> DEFINE C == [p : Peers, cmd : Commands]
  <2>1. packets \in Seq(C)
    BY DEF IInv, TypeOK, QueueType
  <2> HIDE DEF C
  <2>2. packets' \in Seq(C)
    BY <1>1, <2>1
  <2>3. QED
    BY <2>2 DEF IInv, TypeOK, QueueType, C, HandleGotBlocks, Resume
<1>4. ThreadType'
  <2>1. nullUsed' \in BOOLEAN
    BY Zenon DEF HandleGotBlocks
  <2>2. QED
    BY <2>1 DEF IInv, TypeOK, ThreadType, HandleGotBlocks, Resume
<1>5. PlayersOwnNames'
  BY NobodyBecomesActive DEF IInv, HandleGotBlocks, Resume
<1>6. QED
  BY <1>2, <1>3, <1>4, <1>5 DEF IInv, TypeOK

\* The heart of the matter: a player that enters the game takes a name nobody has.
LEMMA HandleClientReadyStep ==
    ASSUME IInv, NEW p \in Peers, HandleClientReady(p)
    PROVE  IInv'
<1>1. NetType /\ ThreadType /\ ClientType /\ PlayerType /\ PlayersOwnNames
  BY DEF IInv, TypeOK
<1>2. /\ packets # <<>> /\ packets' = Tail(packets) /\ serving' = NoPeer
      /\ UNCHANGED <<conn, inbox, cl, name, changes, phase, allowed, authDB, leaving,
                     known, nullUsed>>
  BY DEF HandleClientReady, Resume, AtHead
<1>3. CASE DenyAccess(p) /\ UNCHANGED <<player, inGame, fatal>>
  BY <1>1, <1>2, <1>3, DenyType, HandlerStep DEF ThreadType, ClientType, PlayerType
<1>4. CASE /\ CanEmerge(p)
           /\ player' = [player EXCEPT ![name[p]] = p]
           /\ inGame' = inGame \cup {p}
           /\ Event(p, "DefinitionsSent", "Active")
           /\ UNCHANGED <<kicked, outbox, mech>>
  <2>1. /\ state' \in [Peers -> States] /\ fatal' \in BOOLEAN
        /\ \A q \in Peers : state'[q] = state[q] \/ (q = p /\ state'[q] = "Active")
    BY <1>1, <1>4, EventType, StatesAre
  <2>2. name[p] \in Names /\ player[name[p]] = NoPeer /\ name[p] \notin leaving
    BY <1>1, <1>4 DEF CanEmerge, NetType, PlayerType
  <2>3. NetType' /\ ThreadType' /\ ClientType'
    BY <1>1, <1>2, <1>4, <2>1 DEF NetType, ThreadType, ClientType
  <2>4. QueueType'
    <3> DEFINE C == [p : Peers, cmd : Commands]
    <3>1. packets \in Seq(C)
      BY DEF IInv, TypeOK, QueueType
    <3> HIDE DEF C
    <3>2. packets' \in Seq(C)
      BY <1>2, <3>1
    <3>3. QED
      BY <1>2, <3>2 DEF IInv, TypeOK, QueueType, C
  <2>5. PlayerType'
    <3>1. player' \in [Names -> Peers \cup {NoPeer}] /\ inGame' \in SUBSET Peers
      BY <1>1, <1>4 DEF PlayerType
    <3>2. leaving' \in SUBSET {n \in Names : player'[n] /= NoPeer}
      BY <1>1, <1>2, <1>4, <2>2 DEF PlayerType
    <3>3. QED
      BY <1>1, <1>2, <3>1, <3>2 DEF PlayerType
  <2>6. PlayersOwnNames'
    <3> SUFFICES ASSUME NEW q \in Peers
                 PROVE  /\ state'[q] = "Active" => q \in inGame'
                        /\ q \in inGame' => player'[name'[q]] = q /\ name'[q] \notin leaving'
      BY Zenon DEF PlayersOwnNames
    <3>1. state'[q] = "Active" => q \in inGame'
      BY <1>1, <1>4, <2>1 DEF PlayersOwnNames
    <3>2. CASE q = p
      BY <1>1, <1>2, <1>4, <2>2, <3>1, <3>2 DEF PlayerType
    <3>3. CASE q # p
      <4>1. ASSUME q \in inGame'
            PROVE  player'[name[q]] = q /\ name[q] \notin leaving
        <5>1. player[name[q]] = q /\ name[q] \notin leaving
          BY <1>1, <1>4, <3>3, <4>1 DEF PlayersOwnNames
        <5>2. name[q] # name[p]
          BY <2>2, <5>1, ClientJoinAssumption
        <5>3. QED
          BY <1>1, <1>4, <5>1, <5>2 DEF PlayerType, NetType
      <4>2. QED
        BY <1>2, <3>1, <4>1
    <3>4. QED
      BY <3>2, <3>3
  <2>7. QED
    BY <2>3, <2>4, <2>5, <2>6 DEF IInv, TypeOK
<1>5. QED
  BY <1>3, <1>4 DEF HandleClientReady

------------------------------------------------------------------------------
(* The theorems *)

LEMMA StepPreserves == IInv /\ [Next]_vars => IInv'
<1> SUFFICES ASSUME IInv, [Next]_vars PROVE IInv'
  OBVIOUS
<1>1. CASE UNCHANGED vars
  <2>1. NetType' /\ QueueType' /\ ThreadType' /\ ClientType' /\ PlayerType'
    BY <1>1 DEF IInv, TypeOK, NetType, QueueType, ThreadType, ClientType, PlayerType,
                vars, netVars, queueVars, clientVars, playerVars, faultVars
  <2>2. PlayersOwnNames'
    BY <1>1, NobodyBecomesActive DEF IInv, vars, netVars, clientVars, playerVars
  <2>3. QED
    BY <2>1, <2>2 DEF IInv, TypeOK
<1>2. CASE PeerChange
  BY <1>2, PeerChangeStep
<1>3. CASE EndChanges \/ EndPackets
  BY <1>3, PhaseStep
<1>4. CASE UpdateObjects
  BY <1>4, UpdateStep
<1>5. CASE RemoveObjects
  BY <1>5, RemoveStep
<1>6. ASSUME NEW p \in Peers, HandlePacket(p)
      PROVE  IInv'
  BY <1>6, NoClientStep, HandleInitStep, HandleFirstSrpStep, HandleBytesAStep,
     HandleBytesMStep, HandleInit2Step, LookUpStep, HandleClientReadyStep,
     HandleGotBlocksStep DEF HandlePacket
<1>7. ASSUME NEW p \in Peers,
             \/ Connect(p) \/ SendInit(p) \/ ClientReacts(p) \/ SendGotBlocks(p)
             \/ ClosePeer(p) \/ Receive(p) \/ Kick(p)
      PROVE  IInv'
  BY <1>7, ConnectStep, SendStep, ReactStep, CloseStep, ReceiveStep, KickStep
<1>8. QED
  BY <1>1, <1>2, <1>3, <1>4, <1>5, <1>6, <1>7 DEF Next, ServerThread

\* The types are right, for any number of peers, names and users.
THEOREM SpecTypeOK == Spec => []TypeOK
<1>1. IInv => TypeOK
  BY DEF IInv
<1>2. QED
  BY InitIsRight, StepPreserves, <1>1, PTL DEF Spec

\* For any number of peers and names, whoever plays owns the name: emergePlayer's
\* look at the name is enough, although it comes long after the handshake's and a
\* removal may come between any two steps.
THEOREM SpecSessionOwnsName == Spec => []SessionOwnsName
<1>1. IInv => SessionOwnsName
  BY DEF IInv, PlayersOwnNames, SessionOwnsName
<1>2. QED
  BY InitIsRight, StepPreserves, <1>1, PTL DEF Spec

\* Four actions touch what a client knows or which players there are.
LEMMA KnownStep ==
    ASSUME IInv, KnownIsThere, [Next]_vars
    PROVE  KnownIsThere'
<1>1. PlayerType /\ NetType
  BY DEF IInv, TypeOK
<1>2. CASE UNCHANGED <<known, player>>
  BY <1>2 DEF KnownIsThere
<1>3. CASE PeerChange
  <2>1. CASE CreateClient(Head(changes).p)
    BY <1>2, <2>1 DEF CreateClient, playerVars
  <2>2. CASE DeleteClient(Head(changes).p)
    BY <1>1, <2>2 DEF DeleteClient, KnownIsThere, PlayerType
  <2>3. QED
    BY <1>3, <2>1, <2>2 DEF PeerChange
<1>4. CASE RemoveObjects
  BY <1>1, <1>4 DEF RemoveObjects, GoesNow, Known, KnownIsThere, PlayerType
<1>5. CASE UpdateObjects
  <2>1. PICK seen \in [Peers -> SUBSET Names] :
          known' = [p \in Peers |->
                       IF AtLeast(p, "DefinitionsSent") /\ player[name[p]] = p
                       THEN {n \in seen[p] \cup {name[p]} :
                                player[n] /= NoPeer /\ n \notin leaving}
                       ELSE known[p]]
    BY <1>5 DEF UpdateObjects
  <2>2. player' = player
    BY <1>5 DEF UpdateObjects
  <2>3. QED
    BY <2>1, <2>2 DEF KnownIsThere
<1>6. ASSUME NEW p \in Peers, HandleClientReady(p)
      PROVE  KnownIsThere'
  <2>1. known' = known
    BY <1>6 DEF HandleClientReady, Resume
  <2>2. player' = player \/ player' = [player EXCEPT ![name[p]] = p]
    BY <1>6 DEF HandleClientReady
  <2>3. QED
    BY <1>1, <2>1, <2>2, ClientJoinAssumption DEF KnownIsThere, PlayerType
<1>7. ASSUME NEW p \in Peers, HandlePacket(p), ~HandleClientReady(p)
      PROVE  UNCHANGED <<known, player>>
  BY <1>7 DEF HandlePacket, NoClient, HandleInit, HandleFirstSrp, HandleBytesA, HandleBytesM,
              HandleInit2, LookUp, HandleGotBlocks, Resume, playerVars
<1>8. ASSUME NEW p \in Peers,
             \/ Connect(p) \/ SendInit(p) \/ ClientReacts(p) \/ SendGotBlocks(p)
             \/ ClosePeer(p) \/ Receive(p) \/ Kick(p)
      PROVE  UNCHANGED <<known, player>>
  BY <1>8 DEF Connect, SendInit, ClientReacts, GotHelloFirst, GotHelloSrp, GotBytesB,
              GotAccept, GotDefinitions, Answer, SendGotBlocks, ClosePeer, Receive, Kick,
              playerVars
<1>9. CASE EndChanges \/ EndPackets \/ UNCHANGED vars
  BY <1>2, <1>9 DEF EndChanges, EndPackets, vars, playerVars
<1>10. QED
  BY <1>2, <1>3, <1>4, <1>5, <1>6, <1>7, <1>8, <1>9 DEF Next, ServerThread

\* No client ever knows the object of a player that is gone.
THEOREM SpecKnownIsThere == Spec => []KnownIsThere
<1>1. Init => KnownIsThere
  BY DEF Init, KnownIsThere
<1>2. IInv /\ KnownIsThere /\ [Next]_vars => KnownIsThere'
  BY KnownStep
<1>3. QED
  BY InitIsRight, StepPreserves, <1>1, <1>2, PTL DEF Spec

------------------------------------------------------------------------------
(* Nothing is left behind, and no packet comes out of turn *)

Free(s, T) == \A i \in DOMAIN s : s[i] \notin T
Few(s, T) == \A i, j \in DOMAIN s : s[i] \in T /\ s[j] \in T => i = j

\* The four messages that take a handshake from the accepted password to the game.
Steps == {"AUTH_ACCEPT", "INIT2", "DEFINITIONS", "CLIENT_READY"}
Packet(p, c) == [p |-> p, cmd |-> c]
PacketsOf(p, C) == {Packet(p, c) : c \in C}

\* In what was sent (out), what waits at the connection (in) and in the queue of
\* packets (todo) there is at most one of the four, and it is one of S.
AtMostOne(out, in, todo, p, S) ==
    /\ Free(out, Steps \ S) /\ Free(in, Steps \ S) /\ Free(todo, PacketsOf(p, Steps \ S))
    /\ Few(out, Steps) /\ Few(in, Steps) /\ Few(todo, PacketsOf(p, Steps))
    /\ Free(out, Steps) \/ Free(in, Steps)
    /\ Free(out, Steps) \/ Free(todo, PacketsOf(p, Steps))
    /\ Free(in, Steps) \/ Free(todo, PacketsOf(p, Steps))

\* Those that may be under way in a state of the client.
Due(s) ==
    IF s = "AwaitingInit2" THEN {"AUTH_ACCEPT", "INIT2"}
    ELSE IF s = "DefinitionsSent" THEN {"DEFINITIONS", "CLIENT_READY"} ELSE {}

Change(k, p) == [kind |-> k, p |-> p]

\* The server has not heard of p yet, or has not created its client.
Expected(p) ==
    \/ conn[p] = "new"
    \/ ~Free(inbox[p], {"added"})
    \/ ~Free(changes, {Change("added", p)})

Denying == {"none", "Denied", "Disconnecting"}

InTurn(p) ==
    /\ Expected(p) => state[p] = "none"
    /\ state[p] /= "InitDone"
    /\ Expected(p) \/ state[p] \notin Denying
         => AtMostOne(outbox[p], inbox[p], packets, p, Due(state[p]))

\* A peer is added once, and before it is removed.
AddedFirst(s, p) ==
    \A i, j \in DOMAIN s :
        s[i] = Change("added", p) =>
           /\ s[j] = Change("added", p) => i = j
           /\ s[j] = Change("removed", p) => i < j

Arrival(p) ==
    /\ conn[p] = "new" => inbox[p] = <<>>
    /\ \A i \in DOMAIN inbox[p] : inbox[p][i] = "added" => i = 1
    /\ conn[p] = "new" \/ ~Free(inbox[p], {"added"})
         => Free(changes, {Change("added", p), Change("removed", p)})
    /\ AddedFirst(changes, p)

RemovalUnderWay(p) ==
    ~Free(inbox[p], {"removed"}) \/ ~Free(changes, {Change("removed", p)})

Departure(p) ==
    conn[p] = "down" /\ (Expected(p) \/ state[p] /= "none" \/ \E n \in Names \ leaving : player[n] = p)
       => RemovalUnderWay(p)

Turns == ~fatal /\ \A p \in Peers : InTurn(p) /\ Arrival(p) /\ Departure(p)

\* A sequence that holds nothing of T, or one element of it, after it grew or shrank.
LEMMA FreeLaws ==
    ASSUME NEW A, NEW s \in Seq(A), NEW T
    PROVE  /\ \A e : Free(s, T) /\ e \notin T => Free(Append(s, e), T)
           /\ \A e : ~Free(s, T) => ~Free(Append(s, e), T)
           /\ \A e : e \in T => ~Free(Append(s, e), T)
           /\ s /= <<>> /\ Free(s, T) => Free(Tail(s), T)
           /\ s /= <<>> /\ ~Free(s, T) /\ Head(s) \notin T => ~Free(Tail(s), T)
           /\ s /= <<>> /\ Free(s, T) => Head(s) \notin T
<1>1. \A e : Len(Append(s, e)) = Len(s) + 1 /\ DOMAIN Append(s, e) = 1 .. Len(s) + 1
             /\ Append(s, e)[Len(s) + 1] = e
             /\ \A i \in 1 .. Len(s) : Append(s, e)[i] = s[i]
  OBVIOUS
<1>2. DOMAIN s = 1 .. Len(s) /\ Len(s) \in Nat
  OBVIOUS
<1>3. s /= <<>> => /\ DOMAIN Tail(s) = 1 .. Len(s) - 1 /\ Len(s) > 0
                   /\ \A i \in 1 .. Len(s) - 1 : Tail(s)[i] = s[i + 1]
                   /\ Head(s) = s[1]
  OBVIOUS
<1>4. ASSUME NEW e
      PROVE  /\ Free(s, T) /\ e \notin T => Free(Append(s, e), T)
             /\ ~Free(s, T) => ~Free(Append(s, e), T)
             /\ e \in T => ~Free(Append(s, e), T)
  BY <1>1, <1>2 DEF Free
<1>5. ASSUME s /= <<>>, Free(s, T)
      PROVE  Free(Tail(s), T) /\ Head(s) \notin T
  BY <1>2, <1>3, <1>5 DEF Free
<1>6. ASSUME s /= <<>>, ~Free(s, T), Head(s) \notin T
      PROVE  ~Free(Tail(s), T)
  <2>1. PICK i \in 1 .. Len(s) : s[i] \in T
    BY <1>2, <1>6 DEF Free
  <2>2. i /= 1
    BY <1>3, <1>6, <2>1
  <2>3. i - 1 \in 1 .. Len(s) - 1 /\ Tail(s)[i - 1] = s[i]
    BY <1>2, <1>3, <1>6, <2>1, <2>2
  <2>4. QED
    BY <1>3, <1>6, <2>1, <2>3 DEF Free
<1>7. QED
  BY <1>4, <1>5, <1>6

LEMMA FewLaws ==
    ASSUME NEW A, NEW s \in Seq(A), NEW T
    PROVE  /\ \A e : Few(s, T) /\ e \notin T => Few(Append(s, e), T)
           /\ \A e : Free(s, T) => Few(Append(s, e), T)
           /\ s /= <<>> /\ Few(s, T) => Few(Tail(s), T)
           /\ s /= <<>> /\ Few(s, T) /\ Head(s) \in T => Free(Tail(s), T)
<1>1. \A e : Len(Append(s, e)) = Len(s) + 1 /\ DOMAIN Append(s, e) = 1 .. Len(s) + 1
             /\ Append(s, e)[Len(s) + 1] = e
             /\ \A i \in 1 .. Len(s) : Append(s, e)[i] = s[i]
  OBVIOUS
<1>2. DOMAIN s = 1 .. Len(s) /\ Len(s) \in Nat
  OBVIOUS
<1>3. s /= <<>> => /\ DOMAIN Tail(s) = 1 .. Len(s) - 1 /\ Len(s) > 0
                   /\ \A i \in 1 .. Len(s) - 1 : Tail(s)[i] = s[i + 1]
                   /\ Head(s) = s[1]
  OBVIOUS
<1>4. ASSUME NEW e, Few(s, T), e \notin T
      PROVE  Few(Append(s, e), T)
  <2>1. \A i \in 1 .. Len(s) + 1 : Append(s, e)[i] \in T => i \in 1 .. Len(s) /\ s[i] \in T
    BY <1>1, <1>2, <1>4
  <2>2. QED
    BY <1>1, <1>2, <1>4, <2>1 DEF Few
<1>5. ASSUME NEW e, Free(s, T)
      PROVE  Few(Append(s, e), T)
  <2>1. \A i \in 1 .. Len(s) + 1 : Append(s, e)[i] \in T => i = Len(s) + 1
    BY <1>1, <1>2, <1>5 DEF Free
  <2>2. QED
    BY <1>1, <2>1 DEF Few
<1>6. ASSUME s /= <<>>, Few(s, T)
      PROVE  Few(Tail(s), T)
  <2>1. \A i \in 1 .. Len(s) - 1 : i + 1 \in 1 .. Len(s) /\ Tail(s)[i] = s[i + 1]
    BY <1>2, <1>3, <1>6
  <2>2. \A i, j \in 1 .. Len(s) - 1 : i + 1 = j + 1 => i = j
    BY <1>2
  <2>3. QED
    BY <1>2, <1>3, <1>6, <2>1, <2>2 DEF Few
<1>7. ASSUME s /= <<>>, Few(s, T), Head(s) \in T
      PROVE  Free(Tail(s), T)
  <2>1. \A i \in 1 .. Len(s) - 1 : i + 1 \in 1 .. Len(s) /\ Tail(s)[i] = s[i + 1] /\ i + 1 /= 1
    BY <1>2, <1>3, <1>7
  <2>2. s[1] \in T /\ 1 \in 1 .. Len(s)
    BY <1>2, <1>3, <1>7
  <2>3. QED
    BY <1>2, <1>3, <1>7, <2>1, <2>2 DEF Few, Free
<1>8. QED
  BY <1>4, <1>5, <1>6, <1>7

LEMMA ConcatIs ==
    ASSUME NEW B, NEW u \in Seq(B), NEW v \in Seq(B)
    PROVE  /\ u \o v \in Seq(B) /\ Len(u \o v) = Len(u) + Len(v)
           /\ \A i \in 1 .. Len(u) + Len(v) :
                 (u \o v)[i] = IF i <= Len(u) THEN u[i] ELSE v[i - Len(u)]
OBVIOUS

\* The connection may put the removal before the last packet.
Late(s, r) == SubSeq(s, 1, Len(s) - 1) \o <<r, s[Len(s)]>>

LEMMA LateIs ==
    ASSUME NEW A, NEW s \in Seq(A), s /= <<>>, NEW r
    PROVE  /\ Len(s) \in Nat /\ Len(s) > 0 /\ DOMAIN Late(s, r) = 1 .. Len(s) + 1
           /\ Late(s, r)[Len(s)] = r /\ Late(s, r)[Len(s) + 1] = s[Len(s)]
           /\ \A i \in 1 .. Len(s) - 1 : Late(s, r)[i] = s[i]
<1> DEFINE n == Len(s)
           t == Late(s, r)
<1>1. n \in Nat /\ n > 0 /\ DOMAIN s = 1 .. n
  OBVIOUS
<1>2. DOMAIN t = 1 .. n + 1 /\ t[n] = r /\ t[n + 1] = s[n] /\ \A i \in 1 .. n - 1 : t[i] = s[i]
  <2> DEFINE B == A \cup {r}
             u == SubSeq(s, 1, n - 1)
             v == <<r, s[n]>>
  <2>1. s \in Seq(B) /\ s[n] \in B /\ r \in B
    BY <1>1
  <2>2. u \in Seq(B) /\ Len(u) = n - 1 /\ \A i \in 1 .. n - 1 : u[i] = s[i]
    BY <1>1, <2>1
  <2>3. v \in Seq(B) /\ Len(v) = 2 /\ v[1] = r /\ v[2] = s[n]
    BY <2>1
  <2>4. t = u \o v
    BY DEF Late
  <2> HIDE DEF B, u, v, n, t
  <2>5. t \in Seq(B) /\ Len(t) = Len(u) + Len(v)
    BY <2>2, <2>3, <2>4, ConcatIs, Zenon
  <2>6. \A i \in 1 .. Len(u) + Len(v) :
           t[i] = IF i <= Len(u) THEN u[i] ELSE v[i - Len(u)]
    <3>1. \A i \in 1 .. Len(u) + Len(v) :
            (u \o v)[i] = IF i <= Len(u) THEN u[i] ELSE v[i - Len(u)]
      BY <2>2, <2>3, ConcatIs
    <3> DEFINE w == u \o v
    <3> HIDE DEF w
    <3>2. \A i \in 1 .. Len(u) + Len(v) :
            w[i] = IF i <= Len(u) THEN u[i] ELSE v[i - Len(u)]
      BY <3>1 DEF w
    <3>3. t = w
      BY <2>4, Zenon DEF w
    <3>4. QED
      BY <3>2, <3>3, Zenon
  <2>7. DOMAIN t = 1 .. n + 1 /\ n \in 1 .. n + 1 /\ n + 1 \in 1 .. n + 1
    BY <1>1, <2>2, <2>3, <2>5
  <2>8. t[n] = v[1] /\ t[n + 1] = v[2]
    <3>1. n - (n - 1) = 1 /\ (n + 1) - (n - 1) = 2 /\ ~(n <= n - 1) /\ ~(n + 1 <= n - 1)
      BY <1>1
    <3>2. Len(u) + Len(v) = n + 1
      BY <1>1, <2>2, <2>3
    <3>3. QED
      BY <2>2, <2>6, <2>7, <3>1, <3>2
  <2>9. \A i \in 1 .. n - 1 : t[i] = u[i]
    BY <1>1, <2>2, <2>3, <2>6
  <2>10. QED
    BY <2>2, <2>3, <2>7, <2>8, <2>9
<1>3. QED
  BY <1>1, <1>2

LEMMA LateLaws ==
    ASSUME NEW A, NEW s \in Seq(A), NEW T, s /= <<>>, NEW r, r \notin T
    PROVE  /\ Free(s, T) <=> Free(Late(s, r), T)
           /\ Few(s, T) => Few(Late(s, r), T)
<1> DEFINE n == Len(s)
           t == Late(s, r)
           P(i) == IF i = n THEN n + 1 ELSE i
<1>1. n \in Nat /\ n > 0 /\ DOMAIN s = 1 .. n
  OBVIOUS
<1>2. DOMAIN t = 1 .. n + 1 /\ t[n] = r /\ t[n + 1] = s[n] /\ \A i \in 1 .. n - 1 : t[i] = s[i]
  BY LateIs
<1> HIDE DEF n, t
<1>3. \A i \in 1 .. n : P(i) \in 1 .. n + 1 /\ t[P(i)] = s[i]
  <2> SUFFICES ASSUME NEW i \in 1 .. n PROVE P(i) \in 1 .. n + 1 /\ t[P(i)] = s[i]
    BY Zenon
  <2>1. CASE i = n
    <3>1. P(i) = n + 1 /\ n + 1 \in 1 .. n + 1
      BY <1>1, <2>1
    <3>2. QED
      BY <1>2, <2>1, <3>1, Zenon
  <2>2. CASE i /= n
    <3>1. i \in 1 .. n - 1 /\ i \in 1 .. n + 1
      BY <1>1, <2>2
    <3>2. QED
      BY <1>2, <2>2, <3>1
  <2>3. QED
    BY <2>1, <2>2
<1>4. \A i \in 1 .. n + 1 : t[i] \in T => \E k \in 1 .. n : i = P(k) /\ t[i] = s[k]
  <2> SUFFICES ASSUME NEW i \in 1 .. n + 1, t[i] \in T
               PROVE  \E k \in 1 .. n : i = P(k) /\ t[i] = s[k]
    OBVIOUS
  <2>1. CASE i = n + 1
    <3>1. n \in 1 .. n /\ P(n) = n + 1
      BY <1>1
    <3>2. QED
      BY <1>2, <2>1, <3>1, Zenon
  <2>2. CASE i < n
    <3>1. i \in 1 .. n /\ i \in 1 .. n - 1 /\ i /= n
      BY <1>1, <2>2
    <3>2. QED
      BY <1>2, <2>2, <3>1
  <2>3. CASE i = n
    BY <1>2, <2>3
  <2>4. QED
    BY <1>1, <2>1, <2>2, <2>3
<1> HIDE DEF P
<1>5. Free(s, T) <=> Free(t, T)
  BY <1>1, <1>2, <1>3, <1>4 DEF Free
<1>6. ASSUME Few(s, T)
      PROVE  Few(t, T)
  <2> SUFFICES ASSUME NEW i \in 1 .. n + 1, NEW j \in 1 .. n + 1, t[i] \in T, t[j] \in T
               PROVE  i = j
    BY <1>2 DEF Few
  <2>1. PICK k \in 1 .. n : i = P(k) /\ t[i] = s[k]
    BY <1>4
  <2>2. PICK l \in 1 .. n : j = P(l) /\ t[j] = s[l]
    BY <1>4
  <2>3. k = l
    BY <1>1, <1>6, <2>1, <2>2 DEF Few
  <2>4. QED
    BY <2>1, <2>2, <2>3
<1>7. QED
  BY <1>5, <1>6 DEF t

------------------------------------------------------------------------------
(* What each kind of step does to the four messages *)

OutSeq == Seq(Replies)
InSeq == Seq(Commands \cup {"added", "removed"})
TodoSeq == Seq([p : Peers, cmd : Commands])

LEMMA SendOther ==
    ASSUME NEW out \in OutSeq, NEW in \in InSeq, NEW todo \in TodoSeq, NEW p, NEW S,
           AtMostOne(out, in, todo, p, S), NEW m, m \notin Steps
    PROVE  /\ AtMostOne(Append(out, m), in, todo, p, S)
           /\ AtMostOne(out, Append(in, m), todo, p, S)
<1>1. m \notin Steps \ S
  OBVIOUS
<1>2. /\ Free(out, Steps) => Free(Append(out, m), Steps)
      /\ Free(out, Steps \ S) => Free(Append(out, m), Steps \ S)
      /\ Few(out, Steps) => Few(Append(out, m), Steps)
  BY <1>1, FreeLaws, FewLaws DEF OutSeq
<1>3. /\ Free(in, Steps) => Free(Append(in, m), Steps)
      /\ Free(in, Steps \ S) => Free(Append(in, m), Steps \ S)
      /\ Few(in, Steps) => Few(Append(in, m), Steps)
  BY <1>1, FreeLaws, FewLaws DEF InSeq
<1>4. QED
  BY <1>2, <1>3, Zenon DEF AtMostOne

LEMMA SendLate ==
    ASSUME NEW out \in OutSeq, NEW in \in InSeq, NEW todo \in TodoSeq, NEW p, NEW S,
           AtMostOne(out, in, todo, p, S), in /= <<>>
    PROVE  AtMostOne(out, Late(in, "removed"), todo, p, S)
<1> DEFINE t == Late(in, "removed")
<1>1. "removed" \notin Steps /\ "removed" \notin Steps \ S
  BY DEF Steps
<1>2. /\ Free(in, Steps) => Free(t, Steps)
      /\ Free(in, Steps \ S) => Free(t, Steps \ S)
      /\ Few(in, Steps) => Few(t, Steps)
  <2> DEFINE A == Commands \cup {"added", "removed"}
             R == Steps \ S
  <2>1. in \in Seq(A)
    BY DEF InSeq
  <2> HIDE DEF A, R
  <2>2. (Free(in, Steps) <=> Free(t, Steps)) /\ (Few(in, Steps) => Few(t, Steps))
    BY <1>1, <2>1, LateLaws
  <2>3. "removed" \notin R
    BY <1>1 DEF R
  <2>4. Free(in, R) <=> Free(t, R)
    BY <2>1, <2>3, LateLaws
  <2>5. QED
    BY <2>2, <2>4 DEF R
<1>3. QED
  BY <1>2, Zenon DEF AtMostOne

LEMMA NothingSent ==
    ASSUME NEW out \in OutSeq, NEW in \in InSeq, NEW todo \in TodoSeq, NEW p, NEW S,
           AtMostOne(out, in, todo, p, S)
    PROVE  AtMostOne(<<>>, in, todo, p, S)
BY DEF AtMostOne, Free, Few

LEMMA ClientTakes ==
    ASSUME NEW out \in OutSeq, NEW in \in InSeq, NEW todo \in TodoSeq, NEW p, NEW S,
           AtMostOne(out, in, todo, p, S), out /= <<>>, NEW c,
           IF Head(out) \in Steps THEN Head(out) \in S => c \in S ELSE c \notin Steps
    PROVE  AtMostOne(Tail(out), Append(in, c), todo, p, S)
<1>1. /\ Free(out, Steps) => Free(Tail(out), Steps)
      /\ Free(out, Steps \ S) => Free(Tail(out), Steps \ S)
      /\ Few(out, Steps) => Few(Tail(out), Steps)
      /\ Free(out, Steps) => Head(out) \notin Steps
      /\ Free(out, Steps \ S) => Head(out) \notin Steps \ S
      /\ Few(out, Steps) /\ Head(out) \in Steps => Free(Tail(out), Steps)
  BY FreeLaws, FewLaws DEF OutSeq
<1>2. /\ Free(in, Steps) /\ c \notin Steps => Free(Append(in, c), Steps)
      /\ Free(in, Steps \ S) /\ c \notin Steps \ S => Free(Append(in, c), Steps \ S)
      /\ Few(in, Steps) /\ c \notin Steps => Few(Append(in, c), Steps)
      /\ Free(in, Steps) => Few(Append(in, c), Steps)
  BY FreeLaws, FewLaws DEF InSeq
<1>3. CASE Head(out) \in Steps
  BY <1>1, <1>2, <1>3 DEF AtMostOne
<1>4. CASE Head(out) \notin Steps
  BY <1>1, <1>2, <1>4 DEF AtMostOne
<1>5. QED
  BY <1>3, <1>4

\* Packets of p, told from others.
LEMMA PacketsAre ==
    ASSUME NEW p, NEW q, NEW c, NEW C
    PROVE  Packet(q, c) \in PacketsOf(p, C) <=> q = p /\ c \in C
<1>1. \A d : Packet(q, c) = Packet(p, d) <=> q = p /\ c = d
  BY DEF Packet
<1>2. QED
  BY <1>1 DEF PacketsOf

LEMMA ServerReceives ==
    ASSUME NEW out \in OutSeq, NEW in \in InSeq, NEW todo \in TodoSeq, NEW p, NEW S,
           AtMostOne(out, in, todo, p, S), in /= <<>>
    PROVE  /\ AtMostOne(out, Tail(in), todo, p, S)
           /\ AtMostOne(out, Tail(in), Append(todo, Packet(p, Head(in))), p, S)
<1> DEFINE T == PacketsOf(p, Steps)
           U == PacketsOf(p, Steps \ S)
           e == Head(in)
<1>1. /\ Free(in, Steps) => Free(Tail(in), Steps)
      /\ Free(in, Steps \ S) => Free(Tail(in), Steps \ S)
      /\ Few(in, Steps) => Few(Tail(in), Steps)
      /\ Free(in, Steps) => e \notin Steps
      /\ Free(in, Steps \ S) => e \notin Steps \ S
      /\ Few(in, Steps) /\ e \in Steps => Free(Tail(in), Steps)
  BY FreeLaws, FewLaws DEF InSeq
<1>2. (Packet(p, e) \in T <=> e \in Steps) /\ (Packet(p, e) \in U <=> e \in Steps \ S)
  BY PacketsAre
<1> DEFINE x == Packet(p, e)
           todo2 == Append(todo, x)
<1> HIDE DEF T, U, e, x
<1>3. /\ Free(todo, T) /\ x \notin T => Free(todo2, T)
      /\ Free(todo, U) /\ x \notin U => Free(todo2, U)
      /\ Few(todo, T) /\ x \notin T => Few(todo2, T)
      /\ Free(todo, T) => Few(todo2, T)
  BY FreeLaws, FewLaws DEF TodoSeq
<1>4. (x \in T <=> e \in Steps) /\ (x \in U <=> e \in Steps \ S)
  BY <1>2 DEF x
<1> HIDE DEF todo2
<1>5. AtMostOne(out, Tail(in), todo, p, S)
  BY <1>1, Zenon DEF AtMostOne
<1>6. AtMostOne(out, Tail(in), todo2, p, S)
  <2>1. /\ Free(out, Steps \ S) /\ Free(in, Steps \ S) /\ Free(todo, U)
        /\ Few(out, Steps) /\ Few(in, Steps) /\ Few(todo, T)
        /\ Free(out, Steps) \/ Free(in, Steps)
        /\ Free(out, Steps) \/ Free(todo, T)
        /\ Free(in, Steps) \/ Free(todo, T)
    BY Zenon DEF AtMostOne, T, U
  <2>2. /\ Free(out, Steps \ S) /\ Free(Tail(in), Steps \ S) /\ Free(todo2, U)
        /\ Few(out, Steps) /\ Few(Tail(in), Steps) /\ Few(todo2, T)
        /\ Free(out, Steps) \/ Free(Tail(in), Steps)
        /\ Free(out, Steps) \/ Free(todo2, T)
        /\ Free(Tail(in), Steps) \/ Free(todo2, T)
    BY <1>1, <1>3, <1>4, <2>1
  <2>3. QED
    BY <2>2, Zenon DEF AtMostOne, T, U
<1>7. QED
  BY <1>5, <1>6 DEF todo2, x, e

\* Another peer's packet, or one that is done with, does not matter.
LEMMA QueueMoves ==
    ASSUME NEW out \in OutSeq, NEW in \in InSeq, NEW todo \in TodoSeq, NEW p, NEW S,
           AtMostOne(out, in, todo, p, S)
    PROVE  /\ \A q, c : q /= p => AtMostOne(out, in, Append(todo, Packet(q, c)), p, S)
           /\ todo /= <<>> => AtMostOne(out, in, Tail(todo), p, S)
           /\ \A c \in Steps : todo /= <<>> /\ Head(todo) = Packet(p, c)
                 => c \in S /\ AtMostOne(out, in, Tail(todo), p, {})
<1> DEFINE T == PacketsOf(p, Steps)
           U == PacketsOf(p, Steps \ S)
           V == PacketsOf(p, Steps \ {})
<1>1. /\ Free(out, Steps \ S) /\ Free(in, Steps \ S) /\ Free(todo, U)
      /\ Few(out, Steps) /\ Few(in, Steps) /\ Few(todo, T)
      /\ Free(out, Steps) \/ Free(in, Steps)
      /\ Free(out, Steps) \/ Free(todo, T)
      /\ Free(in, Steps) \/ Free(todo, T)
  BY Zenon DEF AtMostOne
<1>2. \A q, c : /\ Packet(q, c) \in T <=> q = p /\ c \in Steps
                /\ Packet(q, c) \in U <=> q = p /\ c \in Steps \ S
  BY PacketsAre
<1>3. V = T /\ Steps \ {} = Steps
  BY Zenon
<1> HIDE DEF T, U, V
<1>4. ASSUME NEW q, NEW c, q /= p
      PROVE  AtMostOne(out, in, Append(todo, Packet(q, c)), p, S)
  <2> DEFINE x == Packet(q, c)
  <2>1. x \notin T /\ x \notin U
    BY <1>2, <1>4
  <2> HIDE DEF x
  <2>2. /\ Free(todo, T) => Free(Append(todo, x), T)
        /\ Free(Append(todo, x), U) /\ Few(Append(todo, x), T)
    BY <1>1, <2>1, FreeLaws, FewLaws DEF TodoSeq
  <2>3. QED
    BY <1>1, <2>2, Zenon DEF AtMostOne, T, U, x
<1>5. ASSUME todo /= <<>>
      PROVE  AtMostOne(out, in, Tail(todo), p, S)
  <2>1. /\ Free(todo, T) => Free(Tail(todo), T)
        /\ Free(Tail(todo), U) /\ Few(Tail(todo), T)
    BY <1>1, <1>5, FreeLaws, FewLaws DEF TodoSeq
  <2>2. QED
    BY <1>1, <2>1, Zenon DEF AtMostOne, T, U
<1>6. ASSUME NEW c \in Steps, todo /= <<>>, Head(todo) = Packet(p, c)
      PROVE  c \in S /\ AtMostOne(out, in, Tail(todo), p, {})
  <2>1. Head(todo) \in T /\ (Head(todo) \in U <=> c \in Steps \ S)
    BY <1>2, <1>6
  <2>2. /\ Free(todo, U) => Head(todo) \notin U
        /\ Free(todo, T) => Head(todo) \notin T
        /\ Free(Tail(todo), T) /\ Few(Tail(todo), T)
    BY <1>1, <1>6, <2>1, FreeLaws, FewLaws DEF TodoSeq
  <2>3. c \in S /\ Free(out, Steps) /\ Free(in, Steps)
    BY <1>1, <2>1, <2>2
  <2>4. QED
    BY <1>1, <1>3, <2>2, <2>3 DEF AtMostOne, T, V
<1>7. QED
  BY <1>4, <1>5, <1>6

\* With nothing under way the next message may be sent.
LEMMA NextStep ==
    ASSUME NEW out \in OutSeq, NEW in \in InSeq, NEW todo \in TodoSeq, NEW p, NEW S,
           AtMostOne(out, in, todo, p, {}), NEW m \in S
    PROVE  AtMostOne(out, in, todo, p, S) /\ AtMostOne(Append(out, m), in, todo, p, S)
<1> DEFINE T == PacketsOf(p, Steps)
           U == PacketsOf(p, Steps \ S)
<1>1. /\ Free(out, Steps) /\ Free(in, Steps) /\ Free(todo, T)
      /\ Few(out, Steps) /\ Few(in, Steps) /\ Few(todo, T)
  <2>1. Steps \ {} = Steps
    OBVIOUS
  <2>2. QED
    BY <2>1 DEF AtMostOne
<1>2. U \subseteq T
  BY DEF PacketsOf
<1> HIDE DEF T, U
<1>3. Free(out, Steps \ S) /\ Free(in, Steps \ S) /\ Free(todo, U)
  BY <1>1, <1>2 DEF Free
<1>4. Free(Append(out, m), Steps \ S) /\ Few(Append(out, m), Steps)
  <2>1. m \notin Steps \ S
    OBVIOUS
  <2>2. QED
    BY <1>1, <1>3, <2>1, FreeLaws, FewLaws DEF OutSeq
<1>5. QED
  BY <1>1, <1>3, <1>4 DEF AtMostOne, T, U

------------------------------------------------------------------------------
(* The steps keep the turns *)

Kinds == {"added", "removed"}
ChangeSeq == Seq([kind : Kinds, p : Peers])

LEMMA TurnTypes ==
    ASSUME IInv, NEW p \in Peers
    PROVE  /\ outbox[p] \in OutSeq /\ inbox[p] \in InSeq /\ packets \in TodoSeq
           /\ changes \in ChangeSeq
BY DEF IInv, TypeOK, NetType, QueueType, OutSeq, InSeq, TodoSeq, ChangeSeq, Kinds

\* A step at peer p that the server has not noticed.
LEMMA NetTurns ==
    ASSUME IInv, Turns, NEW p \in Peers,
           UNCHANGED <<state, packets, changes, player, leaving, fatal>>,
           \A q \in Peers \ {p} :
              inbox'[q] = inbox[q] /\ outbox'[q] = outbox[q] /\ conn'[q] = conn[q],
           InTurn(p)', Arrival(p)', Departure(p)'
    PROVE  Turns'
<1>1. ASSUME NEW q \in Peers, q /= p
      PROVE  InTurn(q)' /\ Arrival(q)' /\ Departure(q)'
  <2>1. InTurn(q) /\ Arrival(q) /\ Departure(q)
    BY DEF Turns
  <2>2. inbox'[q] = inbox[q] /\ outbox'[q] = outbox[q] /\ conn'[q] = conn[q]
    BY <1>1
  <2>3. InTurn(q)'
    BY <2>1, <2>2, Zenon DEF InTurn, Expected
  <2>4. Arrival(q)'
    BY <2>1, <2>2, Zenon DEF Arrival
  <2>5. Departure(q)'
    BY <2>1, <2>2, Zenon DEF Departure, Expected, RemovalUnderWay
  <2>6. QED
    BY <2>3, <2>4, <2>5
<1>2. QED
  BY <1>1 DEF Turns

\* The client sends the command c.
LEMMA TellTurns ==
    ASSUME IInv, Turns, NEW p \in Peers, NEW c \in Commands, conn[p] = "up", Tell(p, c),
           UNCHANGED <<conn, state, packets, changes, player, leaving, fatal>>,
           \A q \in Peers \ {p} : outbox'[q] = outbox[q],
           InTurn(p) /\ (Expected(p) \/ state[p] \notin Denying)
              => AtMostOne(outbox'[p], inbox'[p], packets, p, Due(state[p]))
    PROVE  Turns'
<1>1. InTurn(p) /\ Arrival(p) /\ Departure(p)
  BY DEF Turns
<1>2. inbox' = [inbox EXCEPT ![p] = Append(inbox[p], c)] /\ inbox \in [Peers -> InSeq]
  BY DEF Tell, IInv, TypeOK, NetType, InSeq
<1>3. inbox'[p] = Append(inbox[p], c) /\ \A q \in Peers \ {p} : inbox'[q] = inbox[q]
  BY <1>2
<1>4. c \notin {"added"}
  BY DEF Commands
<1>5. inbox[p] \in InSeq
  BY <1>2
<1>6. Free(inbox'[p], {"added"}) <=> Free(inbox[p], {"added"})
  BY <1>3, <1>4, <1>5, FreeLaws DEF InSeq
<1>7. Expected(p)' <=> Expected(p)
  BY <1>6 DEF Expected
<1>8. InTurn(p)'
  BY <1>1, <1>7 DEF InTurn
<1>9. Arrival(p)'
  <2>1. \A i \in DOMAIN inbox'[p] : inbox'[p][i] = "added" => i = 1
    <3>1. \A i \in DOMAIN Append(inbox[p], c) :
             Append(inbox[p], c)[i] = "added" => i \in DOMAIN inbox[p] /\ inbox[p][i] = "added"
      BY <1>4, <1>5 DEF InSeq
    <3>2. QED
      BY <1>1, <1>3, <3>1 DEF Arrival
  <2>2. QED
    BY <1>1, <1>6, <2>1 DEF Arrival
<1>10. Departure(p)'
  BY DEF Departure
<1>11. QED
  BY <1>3, <1>8, <1>9, <1>10, NetTurns

LEMMA SendTurns ==
    ASSUME IInv, Turns, NEW p \in Peers, SendInit(p) \/ SendGotBlocks(p)
    PROVE  Turns'
<1>1. PICK c \in {"INIT", "GOTBLOCKS"} : conn[p] = "up" /\ Tell(p, c)
  BY DEF SendInit, SendGotBlocks
<1>2. c \in Commands /\ c \notin Steps
  BY DEF Commands, Steps
<1>3. UNCHANGED <<conn, state, packets, changes, player, leaving, fatal, outbox>>
  BY DEF SendInit, SendGotBlocks, queueVars, clientVars, playerVars, faultVars
<1>4. inbox'[p] = Append(inbox[p], c)
  BY <1>1 DEF Tell, IInv, TypeOK, NetType
<1>5. InTurn(p) /\ (Expected(p) \/ state[p] \notin Denying)
         => AtMostOne(outbox'[p], inbox'[p], packets, p, Due(state[p]))
  <2>1. AtMostOne(outbox[p], inbox[p], packets, p, Due(state[p]))
           => AtMostOne(outbox[p], Append(inbox[p], c), packets, p, Due(state[p]))
    BY <1>2, TurnTypes, SendOther
  <2>2. QED
    BY <1>3, <1>4, <2>1 DEF InTurn
<1>6. QED
  BY <1>1, <1>2, <1>3, <1>5, TellTurns

LEMMA AnswerTurns ==
    ASSUME IInv, Turns, NEW p \in Peers, NEW r \in Replies, NEW c \in Commands, NEW next,
           Answer(p, r, c, next),
           \/ r \notin Steps /\ c \notin Steps
           \/ r = "AUTH_ACCEPT" /\ c = "INIT2"
           \/ r = "DEFINITIONS" /\ c = "CLIENT_READY"
    PROVE  Turns'
<1>1. /\ conn[p] = "up" /\ Tell(p, c) /\ outbox[p] /= <<>> /\ Head(outbox[p]) = r
      /\ outbox' = [outbox EXCEPT ![p] = Tail(outbox[p])]
      /\ UNCHANGED <<conn, state, packets, changes, player, leaving, fatal>>
  BY DEF Answer, Got, queueVars, clientVars, playerVars, faultVars
<1>2. /\ inbox'[p] = Append(inbox[p], c) /\ outbox'[p] = Tail(outbox[p])
      /\ \A q \in Peers \ {p} : outbox'[q] = outbox[q]
  BY <1>1 DEF Tell, IInv, TypeOK, NetType
<1>3. IF Head(outbox[p]) \in Steps
      THEN Head(outbox[p]) \in Due(state[p]) => c \in Due(state[p]) ELSE c \notin Steps
  BY <1>1 DEF Due, Steps
<1>4. AtMostOne(outbox[p], inbox[p], packets, p, Due(state[p]))
         => AtMostOne(Tail(outbox[p]), Append(inbox[p], c), packets, p, Due(state[p]))
  BY <1>1, <1>3, TurnTypes, ClientTakes
<1>5. InTurn(p) /\ (Expected(p) \/ state[p] \notin Denying)
         => AtMostOne(outbox'[p], inbox'[p], packets, p, Due(state[p]))
  BY <1>2, <1>4 DEF InTurn
<1>6. QED
  BY <1>1, <1>2, <1>5, TellTurns

LEMMA ReactTurns ==
    ASSUME IInv, Turns, NEW p \in Peers, ClientReacts(p)
    PROVE  Turns'
<1>1. CASE GotHelloFirst(p)
  BY <1>1, AnswerTurns DEF GotHelloFirst, Replies, Commands, Steps
<1>2. CASE GotHelloSrp(p)
  BY <1>2, AnswerTurns DEF GotHelloSrp, Replies, Commands, Steps
<1>3. CASE GotBytesB(p)
  BY <1>3, AnswerTurns DEF GotBytesB, Replies, Commands, Steps
<1>4. CASE GotAccept(p)
  BY <1>4, AnswerTurns DEF GotAccept, Replies, Commands, Steps
<1>5. CASE GotDefinitions(p)
  BY <1>5, AnswerTurns DEF GotDefinitions, Replies, Commands, Steps
<1>6. QED
  BY <1>1, <1>2, <1>3, <1>4, <1>5 DEF ClientReacts

LEMMA ConnectTurns ==
    ASSUME IInv, Turns, NEW p \in Peers, Connect(p)
    PROVE  Turns'
<1>1. InTurn(p) /\ Arrival(p) /\ conn[p] = "new"
  BY DEF Turns, Connect
<1>2. /\ inbox'[p] = <<"added">> /\ inbox[p] = <<>> /\ conn'[p] = "up"
      /\ \A q \in Peers \ {p} : inbox'[q] = inbox[q] /\ conn'[q] = conn[q]
  BY <1>1 DEF Connect, IInv, TypeOK, NetType, Arrival
<1>3. UNCHANGED <<state, packets, changes, player, leaving, fatal, outbox>>
  BY DEF Connect, queueVars, clientVars, playerVars, faultVars
<1>4. InTurn(p)'
  <2>1. state[p] = "none" /\ AtMostOne(outbox[p], inbox[p], packets, p, Due(state[p]))
    BY <1>1 DEF InTurn, Expected
  <2>2. Append(inbox[p], "added") = <<"added">> /\ "added" \notin Steps
    BY <1>2 DEF Steps
  <2>3. AtMostOne(outbox[p], Append(inbox[p], "added"), packets, p, Due(state[p]))
    BY <2>1, <2>2, TurnTypes, SendOther
  <2>4. QED
    BY <1>2, <1>3, <2>1, <2>2, <2>3 DEF InTurn
<1>5. Arrival(p)'
  <2>1. Free(changes, {Change("added", p), Change("removed", p)})
    BY <1>1 DEF Arrival
  <2>2. \A i \in DOMAIN inbox'[p] : inbox'[p][i] = "added" => i = 1
    BY <1>2
  <2>3. QED
    BY <1>1, <1>2, <1>3, <2>1, <2>2 DEF Arrival
<1>6. Departure(p)'
  BY <1>2 DEF Departure
<1>7. QED
  BY <1>2, <1>3, <1>4, <1>5, <1>6, NetTurns

LEMMA CloseTurns ==
    ASSUME IInv, Turns, NEW p \in Peers, ClosePeer(p)
    PROVE  Turns'
<1>1. InTurn(p) /\ Arrival(p) /\ conn[p] = "up" /\ inbox[p] \in InSeq
  BY TurnTypes DEF Turns, ClosePeer
<1> DEFINE b == inbox'[p]
           Old == inbox[p]
<1>2. \/ b = Append(Old, "removed")
      \/ Old /= <<>> /\ b = Late(Old, "removed") /\ Old[Len(Old)] \in Commands
  <2>1. inbox \in [Peers -> InSeq]
    BY DEF IInv, TypeOK, NetType, InSeq
  <2>2. CASE inbox' = [inbox EXCEPT ![p] = Append(Old, "removed")]
    BY <2>1, <2>2
  <2>3. CASE /\ Len(Old) > 0 /\ Old[Len(Old)] \in Commands
             /\ inbox' = [inbox EXCEPT ![p] = SubSeq(Old, 1, Len(Old) - 1)
                                                \o <<"removed", Old[Len(Old)]>>]
    <3> DEFINE l == Late(Old, "removed")
    <3>1. inbox' = [inbox EXCEPT ![p] = l]
      BY <2>3 DEF Late
    <3> HIDE DEF l
    <3>2. b = l
      BY <2>1, <3>1
    <3>3. Old /= <<>>
      BY <2>3
    <3>4. QED
      BY <2>3, <3>2, <3>3 DEF l
  <2>4. QED
    BY <2>2, <2>3 DEF ClosePeer
<1>3. /\ conn'[p] = "down" /\ outbox'[p] = <<>>
      /\ \A q \in Peers \ {p} :
            inbox'[q] = inbox[q] /\ outbox'[q] = outbox[q] /\ conn'[q] = conn[q]
  BY DEF ClosePeer, IInv, TypeOK, NetType
<1>4. UNCHANGED <<state, packets, changes, player, leaving, fatal>>
  BY DEF ClosePeer, queueVars, clientVars, playerVars, faultVars
<1> HIDE DEF b, Old
<1>5. Old \in InSeq /\ "removed" \notin Steps /\ "removed" \notin {"added"}
  BY <1>1 DEF Old, Steps
<1>6. Free(b, {"added"}) <=> Free(Old, {"added"})
  <2>1. CASE b = Append(Old, "removed")
    BY <1>5, <2>1, FreeLaws DEF InSeq
  <2>2. CASE Old /= <<>> /\ b = Late(Old, "removed")
    BY <1>5, <2>2, LateLaws DEF InSeq
  <2>3. QED
    BY <1>2, <2>1, <2>2
<1>7. Expected(p)' <=> Expected(p)
  BY <1>1, <1>3, <1>4, <1>6 DEF Expected, b, Old
<1>8. InTurn(p)'
  <2>1. ASSUME AtMostOne(outbox[p], Old, packets, p, Due(state[p]))
        PROVE  AtMostOne(<<>>, b, packets, p, Due(state[p]))
    <3>1. outbox[p] \in OutSeq /\ packets \in TodoSeq /\ <<>> \in OutSeq
      BY TurnTypes DEF OutSeq
    <3>2. AtMostOne(<<>>, Old, packets, p, Due(state[p]))
      BY <1>5, <2>1, <3>1, NothingSent
    <3>3. CASE b = Append(Old, "removed")
      BY <1>5, <3>1, <3>2, <3>3, SendOther
    <3>4. CASE Old /= <<>> /\ b = Late(Old, "removed")
      BY <1>5, <3>1, <3>2, <3>4, SendLate
    <3>5. QED
      BY <1>2, <3>3, <3>4
  <2>2. QED
    BY <1>1, <1>3, <1>4, <1>7, <2>1 DEF InTurn, b, Old
<1>9. Arrival(p)'
  <2>1. \A i \in DOMAIN Old : Old[i] = "added" => i = 1
    BY <1>1 DEF Arrival, Old
  <2>2. \A i \in DOMAIN b : b[i] = "added" => i = 1
    <3>1. CASE b = Append(Old, "removed")
      <4>1. \A i \in DOMAIN Append(Old, "removed") : Append(Old, "removed")[i] = "added"
               => i \in DOMAIN Old /\ Old[i] = "added"
        BY <1>5 DEF InSeq
      <4>2. QED
        BY <2>1, <3>1, <4>1
    <3>2. CASE Old /= <<>> /\ b = Late(Old, "removed") /\ Old[Len(Old)] \in Commands
      <4> DEFINE n == Len(Old)
      <4>1. /\ n \in Nat /\ n > 0 /\ DOMAIN b = 1 .. n + 1 /\ b[n] = "removed"
            /\ b[n + 1] = Old[n] /\ \A i \in 1 .. n - 1 : b[i] = Old[i]
        BY <1>5, <3>2, LateIs DEF InSeq
      <4>2. DOMAIN Old = 1 .. n /\ Old[n] /= "added"
        BY <1>5, <3>2 DEF InSeq, Commands
      <4> HIDE DEF n
      <4> SUFFICES ASSUME NEW i \in 1 .. n + 1, b[i] = "added"
                   PROVE  i = 1
        BY <4>1
      <4>3. i /= n /\ i /= n + 1
        BY <4>1, <4>2
      <4>4. i \in 1 .. n - 1 /\ i \in 1 .. n
        BY <4>1, <4>3
      <4>5. QED
        BY <2>1, <4>1, <4>2, <4>4
    <3>3. QED
      BY <1>2, <3>1, <3>2
  <2>3. QED
    BY <1>1, <1>3, <1>4, <1>6, <2>2 DEF Arrival, b, Old
<1>10. Departure(p)'
  <2>1. ~Free(b, {"removed"})
    <3>1. CASE b = Append(Old, "removed")
      BY <1>5, <3>1, FreeLaws DEF InSeq
    <3>2. CASE Old /= <<>> /\ b = Late(Old, "removed")
      <4> DEFINE n == Len(Old)
      <4>1. n \in Nat /\ n > 0 /\ DOMAIN b = 1 .. n + 1 /\ b[n] = "removed"
        BY <1>5, <3>2, LateIs DEF InSeq
      <4>2. n \in DOMAIN b
        BY <4>1
      <4>3. QED
        BY <4>1, <4>2 DEF Free
    <3>3. QED
      BY <1>2, <3>1, <3>2
  <2>2. QED
    BY <2>1 DEF Departure, RemovalUnderWay, b
<1>11. QED
  BY <1>3, <1>4, <1>8, <1>9, <1>10, NetTurns

LEMMA ChangesAre ==
    ASSUME NEW k, NEW l, NEW p, NEW q
    PROVE  Change(k, p) = Change(l, q) <=> k = l /\ p = q
BY DEF Change

LEMMA AddedFirstTail ==
    ASSUME NEW A, NEW s \in Seq(A), NEW p, s /= <<>>, AddedFirst(s, p)
    PROVE  /\ AddedFirst(Tail(s), p)
           /\ Head(s) = Change("added", p) => Free(Tail(s), {Change("added", p)})
           /\ Head(s) = Change("removed", p) => Free(s, {Change("added", p)})
<1> DEFINE a == Change("added", p)
           r == Change("removed", p)
<1> HIDE DEF a, r
<1>2. DOMAIN s = 1 .. Len(s) /\ Len(s) \in Nat
  OBVIOUS
<1>3. /\ DOMAIN Tail(s) = 1 .. Len(s) - 1 /\ Len(s) > 0
      /\ \A i \in 1 .. Len(s) - 1 : Tail(s)[i] = s[i + 1]
      /\ Head(s) = s[1]
  OBVIOUS
<1>4. \A i, j \in 1 .. Len(s) : s[i] = a => (s[j] = a => i = j) /\ (s[j] = r => i < j)
  BY <1>2 DEF AddedFirst, a, r
<1>5. \A i \in 1 .. Len(s) - 1 : i + 1 \in 1 .. Len(s) /\ Tail(s)[i] = s[i + 1] /\ i + 1 /= 1
  BY <1>2, <1>3
<1>6. 1 \in 1 .. Len(s) /\ Head(s) = s[1] /\ DOMAIN Tail(s) = 1 .. Len(s) - 1
  BY <1>2, <1>3
<1>7. AddedFirst(Tail(s), p)
  BY <1>4, <1>5, <1>6 DEF AddedFirst, a, r
<1>8. Head(s) = a => Free(Tail(s), {a})
  BY <1>4, <1>5, <1>6 DEF Free
<1>9. Head(s) = r => Free(s, {a})
  <2> SUFFICES ASSUME s[1] = r, NEW i \in 1 .. Len(s), s[i] = a
               PROVE  FALSE
    BY <1>2, <1>6 DEF Free
  <2>1. i < 1
    BY <1>4, <1>6
  <2>2. QED
    BY <2>1
<1>10. QED
  BY <1>7, <1>8, <1>9 DEF a, r

LEMMA AddedFirstLaws ==
    ASSUME NEW A, NEW s \in Seq(A), NEW p
    PROVE  /\ \A x : AddedFirst(s, p) /\ x /= Change("added", p)
                        => AddedFirst(Append(s, x), p)
           /\ \A x : Free(s, {Change("added", p), Change("removed", p)})
                        => AddedFirst(Append(s, x), p)
<1> DEFINE a == Change("added", p)
           r == Change("removed", p)
<1>1. \A e : /\ DOMAIN Append(s, e) = 1 .. Len(s) + 1
             /\ Append(s, e)[Len(s) + 1] = e
             /\ \A i \in 1 .. Len(s) : Append(s, e)[i] = s[i]
  OBVIOUS
<1>2. DOMAIN s = 1 .. Len(s) /\ Len(s) \in Nat
  OBVIOUS
<1>4. a /= r
  BY ChangesAre, "added" /= "removed"
<1> HIDE DEF a, r
<1>5. ASSUME NEW x, AddedFirst(s, p), x /= a
      PROVE  AddedFirst(Append(s, x), p)
  <2>1. \A i \in 1 .. Len(s) + 1 : Append(s, x)[i] = a => i \in 1 .. Len(s) /\ s[i] = a
    BY <1>1, <1>2, <1>5
  <2>2. \A i, j \in 1 .. Len(s) : s[i] = a => (s[j] = a => i = j) /\ (s[j] = r => i < j)
    BY <1>2, <1>5 DEF AddedFirst, a, r
  <2>3. \A j \in 1 .. Len(s) + 1 : Append(s, x)[j] = r => j = Len(s) + 1 \/ s[j] = r
    BY <1>1, <1>2
  <2>4. QED
    BY <1>1, <1>2, <2>1, <2>2, <2>3 DEF AddedFirst, a, r
<1>6. ASSUME NEW x, Free(s, {a, r})
      PROVE  AddedFirst(Append(s, x), p)
  <2>1. \A i \in 1 .. Len(s) + 1 : Append(s, x)[i] \in {a, r} => i = Len(s) + 1
    BY <1>1, <1>2, <1>6 DEF Free
  <2>2. QED
    BY <1>1, <1>2, <1>4, <2>1 DEF AddedFirst, a, r
<1>7. QED
  BY <1>5, <1>6 DEF a, r

\* The network thread takes an event of p: the other peers do not notice.
LEMMA ReceiveOthers ==
    ASSUME IInv, Turns, NEW p \in Peers, Receive(p), NEW q \in Peers, q /= p
    PROVE  InTurn(q)' /\ Arrival(q)' /\ Departure(q)'
<1> DEFINE e == Head(inbox[p])
<1>1. /\ inbox'[q] = inbox[q] /\ outbox' = outbox /\ conn' = conn /\ state'[q] = state[q]
      /\ player' = player /\ leaving' = leaving
  <2>1. inbox \in [Peers -> InSeq] /\ state \in [Peers -> States]
    BY DEF IInv, TypeOK, NetType, ClientType, InSeq
  <2>2. /\ inbox' = [inbox EXCEPT ![p] = Tail(inbox[p])]
        /\ UNCHANGED <<outbox, conn, player, leaving>>
    BY DEF Receive, playerVars
  <2>3. state'[q] = state[q]
    BY <2>1 DEF Receive
  <2>4. QED
    BY <2>1, <2>2, <2>3
<1>2. InTurn(q) /\ Arrival(q) /\ Departure(q)
  BY DEF Turns
<1>3. /\ inbox[q] \in InSeq /\ outbox[q] \in OutSeq /\ packets \in TodoSeq
      /\ changes \in ChangeSeq
  BY TurnTypes
<1>4. /\ packets' = packets \/ packets' = Append(packets, Packet(p, e))
      /\ changes' = changes \/ changes' = Append(changes, Change(e, p))
  BY DEF Receive, Packet, Change
<1>5. \A k, T : T \subseteq {Change("added", q), Change("removed", q)}
           => Change(k, p) \notin T
  BY ChangesAre
<1> DEFINE x == Change(e, p)
<1>6. \A T : T \subseteq {Change("added", q), Change("removed", q)} => x \notin T
  BY <1>5
<1>7. x /= Change("added", q)
  BY ChangesAre
<1> HIDE DEF x, e
<1>8. \A T : T \subseteq {Change("added", q), Change("removed", q)}
           => (Free(changes', T) <=> Free(changes, T))
  <2> SUFFICES ASSUME NEW T, T \subseteq {Change("added", q), Change("removed", q)},
                      changes' = Append(changes, x)
               PROVE  Free(changes', T) <=> Free(changes, T)
    BY <1>4 DEF x
  <2>1. x \notin T
    BY <1>6
  <2>2. QED
    BY <1>3, <2>1, FreeLaws DEF ChangeSeq
<1>9. Expected(q)' <=> Expected(q)
  BY <1>1, <1>8 DEF Expected
<1>10. InTurn(q)'
  <2>1. AtMostOne(outbox[q], inbox[q], packets, q, Due(state[q]))
           => AtMostOne(outbox[q], inbox[q], packets', q, Due(state[q]))
    BY <1>3, <1>4, QueueMoves
  <2>2. QED
    BY <1>1, <1>2, <1>9, <2>1 DEF InTurn
<1>11. Arrival(q)'
  <2>1. AddedFirst(changes', q)
    <3>1. AddedFirst(changes, q)
      BY <1>2 DEF Arrival
    <3>2. CASE changes' = Append(changes, x)
      BY <1>3, <1>7, <3>1, <3>2, AddedFirstLaws DEF ChangeSeq
    <3>3. QED
      BY <1>4, <3>1, <3>2 DEF x
  <2>2. QED
    BY <1>1, <1>2, <1>8, <2>1 DEF Arrival
<1>12. Departure(q)'
  BY <1>1, <1>2, <1>8, <1>9 DEF Departure, RemovalUnderWay
<1>13. QED
  BY <1>10, <1>11, <1>12

\* What taking the first event of p leaves of it.
LEMMA HeadTaken ==
    ASSUME IInv, Turns, NEW p \in Peers, Receive(p)
    PROVE  /\ inbox[p] /= <<>> /\ inbox'[p] = Tail(inbox[p]) /\ conn[p] /= "new"
           /\ Head(inbox[p]) \in Commands \cup {"added", "removed"}
           /\ UNCHANGED <<outbox, conn, player, leaving>>
           /\ Free(inbox'[p], {"added"})
           /\ Head(inbox[p]) /= "added" => Free(inbox[p], {"added"})
           /\ Head(inbox[p]) /= "removed"
                 => (Free(inbox'[p], {"removed"}) <=> Free(inbox[p], {"removed"}))
<1>1. inbox[p] \in InSeq /\ Arrival(p)
  BY TurnTypes DEF Turns
<1>2. /\ inbox[p] /= <<>> /\ inbox'[p] = Tail(inbox[p])
      /\ UNCHANGED <<outbox, conn, player, leaving>>
  <2>1. inbox' = [inbox EXCEPT ![p] = Tail(inbox[p])] /\ inbox \in [Peers -> InSeq]
    BY DEF Receive, IInv, TypeOK, NetType, InSeq
  <2>2. QED
    BY <2>1 DEF Receive, playerVars
<1>3. conn[p] /= "new" /\ \A i \in DOMAIN inbox[p] : inbox[p][i] = "added" => i = 1
  BY <1>1, <1>2 DEF Arrival
<1>4. /\ DOMAIN Tail(inbox[p]) = 1 .. Len(inbox[p]) - 1 /\ Len(inbox[p]) > 0
      /\ DOMAIN inbox[p] = 1 .. Len(inbox[p]) /\ Len(inbox[p]) \in Nat
      /\ \A i \in 1 .. Len(inbox[p]) - 1 : Tail(inbox[p])[i] = inbox[p][i + 1]
      /\ Head(inbox[p]) = inbox[p][1]
  BY <1>1, <1>2 DEF InSeq
<1>5. Head(inbox[p]) \in Commands \cup {"added", "removed"}
  BY <1>1, <1>2 DEF InSeq
<1>6. Free(Tail(inbox[p]), {"added"})
  BY <1>3, <1>4 DEF Free
<1>7. Head(inbox[p]) /= "added" => Free(inbox[p], {"added"})
  BY <1>3, <1>4 DEF Free
<1>8. Head(inbox[p]) /= "removed"
         => (Free(Tail(inbox[p]), {"removed"}) <=> Free(inbox[p], {"removed"}))
  BY <1>1, <1>2, FreeLaws DEF InSeq
<1>9. QED
  BY <1>2, <1>3, <1>5, <1>6, <1>7, <1>8

LEMMA ReceivePacket ==
    ASSUME IInv, Turns, NEW p \in Peers, Receive(p), Head(inbox[p]) \in Commands
    PROVE  InTurn(p)' /\ Arrival(p)' /\ Departure(p)'
<1>1. InTurn(p) /\ Arrival(p) /\ Departure(p)
  BY DEF Turns
<1>2. /\ packets' = Append(packets, Packet(p, Head(inbox[p])))
      /\ UNCHANGED <<changes, state>>
  BY DEF Receive, Packet
<1>3. Head(inbox[p]) /= "added" /\ Head(inbox[p]) /= "removed"
  BY DEF Commands
<1>4. /\ inbox[p] /= <<>> /\ inbox'[p] = Tail(inbox[p]) /\ conn[p] /= "new"
      /\ UNCHANGED <<outbox, conn, player, leaving>>
      /\ Free(inbox'[p], {"added"}) /\ Free(inbox[p], {"added"})
      /\ Free(inbox'[p], {"removed"}) <=> Free(inbox[p], {"removed"})
  BY <1>3, HeadTaken
<1>5. (Expected(p)' <=> Expected(p)) /\ (RemovalUnderWay(p)' <=> RemovalUnderWay(p))
  BY <1>2, <1>4 DEF Expected, RemovalUnderWay
<1>6. AtMostOne(outbox[p], inbox[p], packets, p, Due(state[p]))
         => AtMostOne(outbox[p], inbox'[p], packets', p, Due(state[p]))
  BY <1>2, <1>4, TurnTypes, ServerReceives
<1>7. InTurn(p)'
  BY <1>1, <1>2, <1>4, <1>5, <1>6 DEF InTurn
<1>8. Arrival(p)'
  <2>1. \A i \in DOMAIN inbox'[p] : inbox'[p][i] /= "added"
    BY <1>4 DEF Free
  <2>2. AddedFirst(changes, p)
    BY <1>1 DEF Arrival
  <2>3. QED
    BY <1>2, <1>4, <2>1, <2>2 DEF Arrival
<1>9. Departure(p)'
  BY <1>1, <1>2, <1>4, <1>5 DEF Departure
<1>10. QED
  BY <1>7, <1>8, <1>9

LEMMA ReceiveChange ==
    ASSUME IInv, Turns, NEW p \in Peers, Receive(p), Head(inbox[p]) \notin Commands
    PROVE  InTurn(p)' /\ Arrival(p)' /\ Departure(p)'
<1> DEFINE e == Head(inbox[p])
           x == Change(e, p)
<1>1. InTurn(p) /\ Arrival(p) /\ Departure(p)
  BY DEF Turns
<1>2. /\ changes' = Append(changes, x) /\ packets' = packets
      /\ state' = [state EXCEPT ![p] =
                      IF e = "removed" /\ state[p] \notin {"none", "Denied"}
                      THEN "Disconnecting" ELSE state[p]]
  BY DEF Receive, Change
<1>3. state'[p] = IF e = "removed" /\ state[p] \notin {"none", "Denied"}
                  THEN "Disconnecting" ELSE state[p]
  BY <1>2 DEF IInv, TypeOK, ClientType
<1>4. e \in {"added", "removed"}
  BY HeadTaken
<1>5. /\ inbox[p] /= <<>> /\ inbox'[p] = Tail(inbox[p]) /\ conn[p] /= "new"
      /\ UNCHANGED <<outbox, conn, player, leaving>>
      /\ Free(inbox'[p], {"added"})
      /\ e /= "added" => Free(inbox[p], {"added"})
      /\ e /= "removed" => (Free(inbox'[p], {"removed"}) <=> Free(inbox[p], {"removed"}))
  BY HeadTaken
<1>6. /\ x = Change("added", p) <=> e = "added"
      /\ x = Change("removed", p) <=> e = "removed"
  BY ChangesAre
<1>7. /\ inbox[p] \in InSeq /\ outbox[p] \in OutSeq /\ packets \in TodoSeq
      /\ changes \in ChangeSeq
  BY TurnTypes
<1>8. AtMostOne(outbox[p], inbox[p], packets, p, Due(state[p]))
         => AtMostOne(outbox[p], inbox'[p], packets', p, Due(state[p]))
  BY <1>2, <1>5, <1>7, ServerReceives
<1>9. e = "added" => Expected(p) /\ Free(changes, {Change("added", p), Change("removed", p)})
  <2>1. e = "added" => ~Free(inbox[p], {"added"})
    BY <1>5, <1>7, FreeLaws DEF InSeq
  <2>2. QED
    BY <1>1, <2>1 DEF Arrival, Expected
<1>10. \A i \in DOMAIN inbox'[p] : inbox'[p][i] /= "added"
  BY <1>5 DEF Free
<1> HIDE DEF x, e
<1>11. CASE e = "added"
  <2>1. Free(changes', {Change("removed", p)}) <=> Free(changes, {Change("removed", p)})
    <3>1. x \notin {Change("removed", p)}
      BY <1>6, <1>11
    <3>2. QED
      BY <1>2, <1>7, <3>1, FreeLaws DEF ChangeSeq
  <2>2. RemovalUnderWay(p)' <=> RemovalUnderWay(p)
    BY <1>5, <1>11, <2>1 DEF RemovalUnderWay
  <2>3. state[p] = "none" /\ state'[p] = "none"
    BY <1>1, <1>3, <1>9, <1>11 DEF InTurn
  <2>4. InTurn(p)'
    <3>1. AtMostOne(outbox[p], inbox[p], packets, p, Due(state[p]))
      BY <1>1, <1>9, <1>11 DEF InTurn
    <3>2. QED
      BY <1>5, <1>8, <2>3, <3>1 DEF InTurn
  <2>5. Arrival(p)'
    <3>1. AddedFirst(changes', p)
      BY <1>2, <1>7, <1>9, <1>11, AddedFirstLaws DEF ChangeSeq
    <3>2. QED
      BY <1>5, <1>10, <3>1 DEF Arrival
  <2>6. Departure(p)'
    BY <1>1, <1>5, <1>9, <1>11, <2>2 DEF Departure
  <2>7. QED
    BY <2>4, <2>5, <2>6
<1>12. CASE e = "removed"
  <2>1. ~Free(changes', {Change("removed", p)})
    BY <1>2, <1>6, <1>7, <1>12, FreeLaws DEF ChangeSeq
  <2>2. Free(changes', {Change("added", p)}) <=> Free(changes, {Change("added", p)})
    <3>1. x \notin {Change("added", p)}
      BY <1>6, <1>12
    <3>2. QED
      BY <1>2, <1>7, <3>1, FreeLaws DEF ChangeSeq
  <2>3. Expected(p)' <=> Expected(p)
    BY <1>5, <1>12, <2>2 DEF Expected
  <2>4. state'[p] \in Denying /\ (state[p] = "none" => state'[p] = "none")
        /\ state'[p] /= "InitDone"
    BY <1>3, <1>12 DEF Denying
  <2>5. InTurn(p)'
    <3>1. Expected(p) => state[p] = "none" /\ state'[p] = "none"
      BY <1>1, <2>4 DEF InTurn
    <3>2. Expected(p) => AtMostOne(outbox[p], inbox'[p], packets', p, Due(state'[p]))
      <4>1. Expected(p) => AtMostOne(outbox[p], inbox[p], packets, p, Due(state[p]))
        BY <1>1 DEF InTurn
      <4>2. QED
        BY <1>8, <3>1, <4>1
    <3>3. QED
      BY <1>5, <2>3, <2>4, <3>1, <3>2 DEF InTurn
  <2>6. Arrival(p)'
    <3>1. AddedFirst(changes', p)
      <4>1. AddedFirst(changes, p) /\ x /= Change("added", p)
        BY <1>1, <1>6, <1>12 DEF Arrival
      <4>2. QED
        BY <1>2, <1>7, <4>1, AddedFirstLaws DEF ChangeSeq
    <3>2. QED
      BY <1>5, <1>10, <3>1 DEF Arrival
  <2>7. Departure(p)'
    BY <2>1 DEF Departure, RemovalUnderWay
  <2>8. QED
    BY <2>5, <2>6, <2>7
<1>13. QED
  BY <1>4, <1>11, <1>12

LEMMA ReceiveTurns ==
    ASSUME IInv, Turns, NEW p \in Peers, Receive(p)
    PROVE  Turns'
<1>1. fatal' = fatal
  BY DEF Receive, faultVars
<1>2. InTurn(p)' /\ Arrival(p)' /\ Departure(p)'
  BY ReceivePacket, ReceiveChange
<1>3. \A q \in Peers \ {p} : InTurn(q)' /\ Arrival(q)' /\ Departure(q)'
  BY ReceiveOthers
<1>4. QED
  BY <1>1, <1>2, <1>3 DEF Turns

\* The server thread takes a change of c: what it was about is over.
LEMMA ChangeTaken ==
    ASSUME IInv, Turns, PeerChange, NEW q \in Peers
    PROVE  /\ Head(changes).p \in Peers /\ Head(changes).kind \in Kinds /\ changes /= <<>>
           /\ Head(changes) = Change(Head(changes).kind, Head(changes).p)
           /\ UNCHANGED <<conn, inbox, outbox, packets, fatal, player>>
           /\ Arrival(q)'
           /\ q /= Head(changes).p \/ Head(changes).kind /= "added"
                => (Expected(q)' <=> Expected(q))
           /\ q /= Head(changes).p \/ Head(changes).kind /= "removed"
                => (RemovalUnderWay(q)' <=> RemovalUnderWay(q))
           /\ q = Head(changes).p => ~Expected(q)'
           /\ q = Head(changes).p /\ Head(changes).kind = "added" => Expected(q)
<1> DEFINE c == Head(changes)
           a == Change("added", q)
           r == Change("removed", q)
<1>1. changes \in ChangeSeq /\ changes /= <<>> /\ changes' = Tail(changes) /\ Arrival(q)
  BY TurnTypes DEF PeerChange, Turns
<1>2. c \in [kind : Kinds, p : Peers]
  <2> DEFINE C == [kind : Kinds, p : Peers]
  <2>1. changes \in Seq(C)
    BY <1>1 DEF ChangeSeq
  <2> HIDE DEF C
  <2>2. Head(changes) \in C
    BY <1>1, <2>1
  <2>3. QED
    BY <2>2 DEF C
<1>3. c.p \in Peers /\ c.kind \in Kinds /\ c = Change(c.kind, c.p)
  BY <1>2 DEF Change
<1>4. UNCHANGED <<conn, inbox, outbox, packets, fatal, player>>
  BY DEF PeerChange, netVars, faultVars, CreateClient, DeleteClient, playerVars
<1>5. (c = a <=> q = c.p /\ c.kind = "added") /\ (c = r <=> q = c.p /\ c.kind = "removed")
  BY <1>3, ChangesAre
<1> HIDE DEF c, a, r
<1>6. c = Head(changes)
  BY DEF c
<1>7. /\ AddedFirst(changes, q)
      /\ conn[q] = "new" \/ ~Free(inbox[q], {"added"}) => Free(changes, {a, r})
  BY <1>1 DEF Arrival, a, r
<1>8. /\ Free(changes, {a, r}) => Free(changes', {a, r}) /\ c /= a /\ c /= r
      /\ Free(changes, {a}) => Free(changes', {a}) /\ c /= a
      /\ c /= a /\ ~Free(changes, {a}) => ~Free(changes', {a})
      /\ Free(changes, {r}) => Free(changes', {r}) /\ c /= r
      /\ c /= r /\ ~Free(changes, {r}) => ~Free(changes', {r})
  <2>1. ASSUME NEW T
        PROVE  /\ Free(changes, T) => Free(changes', T) /\ c \notin T
               /\ ~Free(changes, T) /\ c \notin T => ~Free(changes', T)
    BY <1>1, <1>6, FreeLaws DEF ChangeSeq
  <2>2. QED
    BY <2>1
<1>9. /\ AddedFirst(changes', q)
      /\ c = a => Free(changes', {a})
      /\ c = r => Free(changes, {a})
  <2> DEFINE s == changes
             A == [kind : Kinds, p : Peers]
  <2>1. s \in Seq(A) /\ s /= <<>> /\ AddedFirst(s, q)
    BY <1>1, <1>7 DEF ChangeSeq
  <2> HIDE DEF s, A
  <2>2. /\ AddedFirst(Tail(s), q)
        /\ Head(s) = Change("added", q) => Free(Tail(s), {Change("added", q)})
        /\ Head(s) = Change("removed", q) => Free(s, {Change("added", q)})
    BY <2>1, AddedFirstTail
  <2>3. QED
    BY <1>1, <1>6, <2>2 DEF s, a, r
<1>10. Arrival(q)'
  BY <1>1, <1>4, <1>7, <1>8, <1>9 DEF Arrival, a, r
<1>11. c /= a => (Expected(q)' <=> Expected(q))
  BY <1>4, <1>8 DEF Expected, a
<1>12. c /= r => (RemovalUnderWay(q)' <=> RemovalUnderWay(q))
  BY <1>4, <1>8 DEF RemovalUnderWay, r
<1>13. c \in {a, r} => ~Expected(q)'
  BY <1>4, <1>7, <1>8, <1>9 DEF Expected, a
<1>14. c = a => Expected(q)
  BY <1>8 DEF Expected, a
<1>15. c.kind = "added" \/ c.kind = "removed"
  BY <1>3 DEF Kinds
<1>16. QED
  BY <1>1, <1>3, <1>4, <1>5, <1>10, <1>11, <1>12, <1>13, <1>14, <1>15 DEF c, a, r

LEMMA PeerChangeTurns ==
    ASSUME IInv, Turns, PeerChange
    PROVE  Turns'
<1> DEFINE c == Head(changes)
<1>0. ~fatal'
  BY DEF Turns, PeerChange, faultVars
<1> SUFFICES ASSUME NEW q \in Peers
             PROVE  InTurn(q)' /\ Arrival(q)' /\ Departure(q)'
  BY <1>0 DEF Turns
<1>1. InTurn(q) /\ Departure(q)
  BY DEF Turns
<1>2. /\ c.p \in Peers /\ c.kind \in Kinds
      /\ UNCHANGED <<conn, inbox, outbox, packets, fatal, player>>
      /\ Arrival(q)'
      /\ q /= c.p \/ c.kind /= "added" => (Expected(q)' <=> Expected(q))
      /\ q /= c.p \/ c.kind /= "removed" => (RemovalUnderWay(q)' <=> RemovalUnderWay(q))
      /\ q = c.p => ~Expected(q)'
      /\ q = c.p /\ c.kind = "added" => Expected(q)
  BY ChangeTaken
<1>3. state \in [Peers -> States]
  BY DEF IInv, TypeOK, ClientType
<1>4. IF c.kind = "added" THEN CreateClient(c.p) ELSE DeleteClient(c.p)
  BY DEF PeerChange
<1> HIDE DEF c
<1>5. CASE q /= c.p
  <2>1. state'[q] = state[q] /\ leaving \subseteq leaving'
    BY <1>2, <1>3, <1>4, <1>5 DEF CreateClient, DeleteClient, playerVars
  <2>2. InTurn(q)'
    BY <1>1, <1>2, <1>5, <2>1 DEF InTurn
  <2>3. Departure(q)'
    BY <1>1, <1>2, <1>5, <2>1 DEF Departure
  <2>4. QED
    BY <1>1, <1>2, <2>2, <2>3
<1>6. CASE q = c.p /\ c.kind = "added"
  <2>1. state[q] = "none" /\ AtMostOne(outbox[q], inbox[q], packets, q, Due("none"))
    BY <1>1, <1>2, <1>6 DEF InTurn
  <2>2. state'[q] = "Created" /\ leaving' = leaving
    BY <1>3, <1>4, <1>6, <2>1 DEF CreateClient, playerVars
  <2>3. Due("none") = Due("Created")
    BY DEF Due
  <2>4. InTurn(q)'
    BY <1>2, <1>6, <2>1, <2>2, <2>3 DEF InTurn
  <2>5. Departure(q)'
    BY <1>1, <1>2, <1>6, <2>2 DEF Departure
  <2>6. QED
    BY <1>1, <1>2, <2>4, <2>5
<1>7. CASE q = c.p /\ c.kind = "removed"
  <2>1. state'[q] = "none" /\ leaving' = leaving \cup {n \in Names : player[n] = q}
    BY <1>3, <1>4, <1>7 DEF DeleteClient
  <2>2. InTurn(q)'
    BY <1>2, <1>7, <2>1 DEF InTurn, Denying
  <2>3. Departure(q)'
    BY <1>2, <1>7, <2>1 DEF Departure
  <2>4. QED
    BY <1>1, <1>2, <2>2, <2>3
<1>8. QED
  BY <1>2, <1>5, <1>6, <1>7 DEF Kinds

------------------------------------------------------------------------------
(* The server thread's other steps *)

LEMMA SameTurns ==
    ASSUME Turns,
           UNCHANGED <<conn, inbox, outbox, packets, changes, state, player, leaving, fatal>>
    PROVE  Turns'
<1> SUFFICES ASSUME NEW q \in Peers
             PROVE  InTurn(q)' /\ Arrival(q)' /\ Departure(q)'
  BY DEF Turns
<1>1. InTurn(q) /\ Arrival(q) /\ Departure(q)
  BY DEF Turns
<1>2. (Expected(q)' <=> Expected(q)) /\ (RemovalUnderWay(q)' <=> RemovalUnderWay(q))
  BY DEF Expected, RemovalUnderWay
<1>3. InTurn(q)'
  BY <1>1, <1>2 DEF InTurn
<1>4. Arrival(q)'
  BY <1>1 DEF Arrival
<1>5. Departure(q)'
  BY <1>1, <1>2 DEF Departure
<1>6. QED
  BY <1>3, <1>4, <1>5

\* q's turn after a step that leaves the connection's events alone.
NextTurn(q) ==
    /\ state'[q] /= "InitDone"
    /\ state'[q] = "none" <=> state[q] = "none"
    /\ Expected(q) \/ state'[q] \notin Denying
         => AtMostOne(outbox'[q], inbox[q], packets', q, Due(state'[q]))

LEMMA ServeTurns ==
    ASSUME IInv, Turns, UNCHANGED <<conn, inbox, changes>>, ~fatal',
           \A q \in Peers : NextTurn(q),
           \A q \in Peers : \A n \in Names \ leaving' :
              player'[n] = q => (n \notin leaving /\ player[n] = q) \/ state[q] /= "none"
    PROVE  Turns'
<1> SUFFICES ASSUME NEW q \in Peers
             PROVE  InTurn(q)' /\ Arrival(q)' /\ Departure(q)'
  BY DEF Turns
<1>1. InTurn(q) /\ Arrival(q) /\ Departure(q) /\ NextTurn(q)
  BY DEF Turns
<1>2. (Expected(q)' <=> Expected(q)) /\ (RemovalUnderWay(q)' <=> RemovalUnderWay(q))
  BY DEF Expected, RemovalUnderWay
<1>3. InTurn(q)'
  BY <1>1, <1>2 DEF InTurn, NextTurn
<1>4. Arrival(q)'
  BY <1>1 DEF Arrival
<1>5. Departure(q)'
  BY <1>1, <1>2 DEF Departure, NextTurn
<1>6. QED
  BY <1>3, <1>4, <1>5

\* Nothing of the four is sent to q, and q's client is not moved on.
LEMMA QuietTurn ==
    ASSUME IInv, Turns, NEW q \in Peers,
           packets' = packets \/ (packets /= <<>> /\ packets' = Tail(packets)),
           outbox'[q] = outbox[q] \/ \E m : m \notin Steps /\ outbox'[q] = Append(outbox[q], m),
           \/ state'[q] = state[q]
           \/ state[q] /= "none" /\ state'[q] \in {"Denied", "Disconnecting"}
           \/ state[q] = "Created" /\ state'[q] = "HelloSent"
    PROVE  NextTurn(q)
<1>1. InTurn(q)
  BY DEF Turns
<1>2. inbox[q] \in InSeq /\ outbox[q] \in OutSeq /\ packets \in TodoSeq
  BY TurnTypes
<1>3. ASSUME AtMostOne(outbox[q], inbox[q], packets, q, Due(state[q]))
      PROVE  AtMostOne(outbox'[q], inbox[q], packets', q, Due(state[q]))
  <2>1. AtMostOne(outbox[q], inbox[q], packets', q, Due(state[q]))
    BY <1>2, <1>3, QueueMoves
  <2>2. packets' \in TodoSeq
    <3> DEFINE C == [p : Peers, cmd : Commands]
    <3>1. packets \in Seq(C)
      BY <1>2 DEF TodoSeq
    <3> HIDE DEF C
    <3>2. packets' \in Seq(C)
      BY <3>1
    <3>3. QED
      BY <3>2 DEF C, TodoSeq
  <2>3. QED
    BY <1>2, <2>1, <2>2, SendOther
<1>4. CASE state'[q] = state[q]
  BY <1>1, <1>3, <1>4 DEF InTurn, NextTurn
<1>5. CASE state[q] /= "none" /\ state'[q] \in {"Denied", "Disconnecting"}
  BY <1>1, <1>5 DEF InTurn, NextTurn, Denying
<1>6. CASE state[q] = "Created" /\ state'[q] = "HelloSent"
  <2>1. Due("Created") = Due("HelloSent")
    BY DEF Due
  <2>2. QED
    BY <1>1, <1>3, <1>6, <2>1 DEF InTurn, NextTurn, Denying
<1>7. QED
  BY <1>4, <1>5, <1>6

\* The other peers while a packet of p is handled.
LEMMA ReplyOthers ==
    ASSUME IInv, NEW p \in Peers, NEW r \in Replies, Reply(p, r)
    PROVE  /\ \A q \in Peers \ {p} : outbox'[q] = outbox[q]
           /\ outbox'[p] = outbox[p] \/ outbox'[p] = Append(outbox[p], r)
BY DEF IInv, TypeOK, NetType, Reply

LEMMA DenyTurns ==
    ASSUME IInv, Turns, NEW p \in Peers, DenyAccess(p),
           packets' = packets \/ (packets /= <<>> /\ packets' = Tail(packets)),
           UNCHANGED <<conn, inbox, changes, player, leaving, fatal>>
    PROVE  Turns'
<1>1. "ACCESS_DENIED" \in Replies /\ "ACCESS_DENIED" \notin Steps
  BY DEF Replies, Steps
<1>2. /\ \A q \in Peers \ {p} : outbox'[q] = outbox[q]
      /\ outbox'[p] = outbox[p] \/ outbox'[p] = Append(outbox[p], "ACCESS_DENIED")
  BY <1>1, ReplyOthers DEF DenyAccess
<1>3. \A q \in Peers : \/ state'[q] = state[q]
                       \/ state[q] /= "none" /\ state'[q] \in {"Denied", "Disconnecting"}
  BY DEF DenyAccess, IInv, TypeOK, ClientType
<1>4. ASSUME NEW q \in Peers
      PROVE  NextTurn(q)
  <2>1. outbox'[q] = outbox[q] \/ \E m : m \notin Steps /\ outbox'[q] = Append(outbox[q], m)
    BY <1>1, <1>2
  <2>2. QED
    BY <1>3, <2>1, QuietTurn
<1>5. ~fatal'
  BY DEF Turns
<1>6. QED
  BY <1>4, <1>5, ServeTurns

\* A client is moved on and sent the message that asks for its next step.
LEMMA MoveOn ==
    ASSUME IInv, Turns, NEW p \in Peers, NEW r, NEW s,
           packets /= <<>>, packets' = Tail(packets),
           AtMostOne(outbox[p], inbox[p], packets', p, {}), state[p] /= "none",
           r \in Replies, Reply(p, r), r \in Due(s), s \notin {"none", "InitDone"},
           state' = [state EXCEPT ![p] = s],
           UNCHANGED <<conn, inbox, changes, player, leaving, fatal>>
    PROVE  Turns'
<1>1. /\ \A q \in Peers \ {p} : outbox'[q] = outbox[q] /\ state'[q] = state[q]
      /\ outbox'[p] = outbox[p] \/ outbox'[p] = Append(outbox[p], r)
      /\ state'[p] = s
  BY ReplyOthers DEF IInv, TypeOK, ClientType
<1>2. \A q \in Peers \ {p} : NextTurn(q)
  BY <1>1, QuietTurn
<1>3. NextTurn(p)
  <2>1. inbox[p] \in InSeq /\ outbox[p] \in OutSeq /\ packets' \in TodoSeq
    <3> DEFINE C == [p : Peers, cmd : Commands]
    <3>1. packets \in Seq(C)
      BY TurnTypes DEF TodoSeq
    <3> HIDE DEF C
    <3>2. packets' \in Seq(C)
      BY <3>1
    <3>3. QED
      BY <3>2, TurnTypes DEF C, TodoSeq
  <2>2. /\ AtMostOne(outbox[p], inbox[p], packets', p, Due(s))
        /\ AtMostOne(Append(outbox[p], r), inbox[p], packets', p, Due(s))
    BY <2>1, NextStep
  <2>3. QED
    BY <1>1, <2>2 DEF NextTurn
<1>4. ~fatal'
  BY DEF Turns
<1>5. QED
  BY <1>2, <1>3, <1>4, ServeTurns

\* A packet that is taken and changes no client.
LEMMA SkipTurns ==
    ASSUME IInv, Turns, packets /= <<>>, packets' = Tail(packets),
           UNCHANGED <<conn, inbox, outbox, changes, state, player, leaving, fatal>>
    PROVE  Turns'
<1>1. \A q \in Peers : NextTurn(q)
  BY QuietTurn
<1>2. ~fatal'
  BY DEF Turns
<1>3. QED
  BY <1>1, <1>2, ServeTurns

LEMMA RemoveTurns ==
    ASSUME IInv, Turns, RemoveObjects
    PROVE  Turns'
<1>1. /\ UNCHANGED <<conn, inbox, outbox, packets, changes, state, fatal>>
      /\ player' = [n \in Names |-> IF GoesNow(n) THEN NoPeer ELSE player[n]]
      /\ leaving' = {n \in leaving : ~GoesNow(n)}
  BY DEF RemoveObjects, netVars, queueVars, clientVars, faultVars
<1>2. \A q \in Peers : NextTurn(q)
  BY <1>1, QuietTurn
<1>3. \A q \in Peers : \A n \in Names \ leaving' :
         player'[n] = q => n \notin leaving /\ player[n] = q
  BY <1>1, ClientJoinAssumption
<1>4. ~fatal'
  BY <1>1 DEF Turns
<1>5. QED
  BY <1>1, <1>2, <1>3, <1>4, ServeTurns

LEMMA KickTurns ==
    ASSUME IInv, Turns, NEW p \in Peers, Kick(p)
    PROVE  Turns'
BY DenyTurns DEF Kick, queueVars, playerVars, faultVars

LEMMA NoClientTurns ==
    ASSUME IInv, Turns, NEW p \in Peers, NoClient(p)
    PROVE  Turns'
BY SkipTurns DEF NoClient, AtHead, netVars, clientVars, playerVars, faultVars

\* What a handler finds.
LEMMA Handled ==
    ASSUME IInv, Turns, NEW p \in Peers, NEW c \in Commands, Handle(p, c)
    PROVE  /\ packets /= <<>> /\ packets' = Tail(packets) /\ Head(packets) = Packet(p, c)
           /\ UNCHANGED <<conn, inbox, changes>>
           /\ state[p] /= "none" /\ ~Expected(p)
<1>1. /\ packets /= <<>> /\ packets' = Tail(packets) /\ Head(packets) = Packet(p, c)
      /\ UNCHANGED <<conn, inbox, changes>>
  BY DEF Handle, AtHead, Packet
<1>2. state[p] /= "none"
  BY DEF Handle, Found, AtLeast
<1>3. ~Expected(p)
  BY <1>2 DEF Turns, InTurn
<1>4. QED
  BY <1>1, <1>2, <1>3

LEMMA InitTurns ==
    ASSUME IInv, Turns, NEW p \in Peers, HandleInit(p)
    PROVE  Turns'
<1>1. /\ packets /= <<>> /\ packets' = Tail(packets)
      /\ UNCHANGED <<conn, inbox, changes>>
  BY Handled DEF HandleInit, Commands
<1>2. CASE UNCHANGED <<outbox, clientVars, playerVars, fatal>>
  BY <1>1, <1>2, SkipTurns DEF clientVars, playerVars
<1>3. CASE DenyAccess(p) /\ UNCHANGED <<playerVars, fatal>>
  BY <1>1, <1>3, DenyTurns DEF playerVars
<1>4. CASE /\ StartsOver(p) /\ Event(p, "Created", "HelloSent") /\ UNCHANGED playerVars
           /\ \E r \in {"HELLO_srp", "HELLO_first"} : Reply(p, r)
  <2>1. PICK r \in {"HELLO_srp", "HELLO_first"} : Reply(p, r)
    BY <1>4
  <2>2. r \in Replies /\ r \notin Steps
    BY DEF Replies, Steps
  <2>3. /\ \A q \in Peers \ {p} : outbox'[q] = outbox[q]
        /\ outbox'[p] = outbox[p] \/ outbox'[p] = Append(outbox[p], r)
    BY <2>1, <2>2, ReplyOthers
  <2>4. state[p] = "Created" /\ state' = [state EXCEPT ![p] = "HelloSent"] /\ fatal' = fatal
    BY <1>4 DEF StartsOver, Event
  <2>5. ASSUME NEW q \in Peers
        PROVE  NextTurn(q)
    <3>1. state'[q] = state[q] \/ (state[q] = "Created" /\ state'[q] = "HelloSent")
      BY <2>4 DEF IInv, TypeOK, ClientType
    <3>2. outbox'[q] = outbox[q] \/ \E m : m \notin Steps /\ outbox'[q] = Append(outbox[q], m)
      BY <2>2, <2>3
    <3>3. QED
      BY <1>1, <3>1, <3>2, QuietTurn
  <2>6. ~fatal' /\ player' = player /\ leaving' = leaving
    BY <1>4, <2>4 DEF Turns, playerVars
  <2>7. QED
    BY <1>1, <2>5, <2>6, ServeTurns
<1>5. QED
  BY <1>2, <1>3, <1>4 DEF HandleInit

\* Nothing was under way, and AUTH_ACCEPT begins the rest of the handshake.
LEMMA AcceptTurns ==
    ASSUME IInv, Turns, NEW p \in Peers, state[p] = "HelloSent", AcceptAuth(p),
           packets /= <<>>, packets' = Tail(packets),
           UNCHANGED <<conn, inbox, changes, player, leaving>>
    PROVE  Turns'
<1>1. AtMostOne(outbox[p], inbox[p], packets, p, {})
  BY DEF Turns, InTurn, Denying, Due
<1>2. AtMostOne(outbox[p], inbox[p], packets', p, {})
  BY <1>1, TurnTypes, QueueMoves
<1>3. state' = [state EXCEPT ![p] = "AwaitingInit2"] /\ fatal' = fatal /\ Reply(p, "AUTH_ACCEPT")
  BY DEF AcceptAuth, Event
<1>4. "AUTH_ACCEPT" \in Replies /\ "AUTH_ACCEPT" \in Due("AwaitingInit2")
  BY DEF Replies, Due
<1>5. QED
  BY <1>2, <1>3, <1>4, MoveOn

LEMMA AuthTurns ==
    ASSUME IInv, Turns, NEW p \in Peers,
           HandleFirstSrp(p) \/ HandleBytesA(p) \/ HandleBytesM(p)
    PROVE  Turns'
<1>1. /\ packets /= <<>> /\ packets' = Tail(packets)
      /\ UNCHANGED <<conn, inbox, changes>>
  BY Handled DEF HandleFirstSrp, HandleBytesA, HandleBytesM, Commands
<1>2. player' = player /\ leaving' = leaving
  BY DEF HandleFirstSrp, HandleBytesA, HandleBytesM, playerVars
<1>3. CASE UNCHANGED <<outbox, state, fatal>>
  BY <1>1, <1>2, <1>3, SkipTurns
<1>4. CASE DenyAccess(p) /\ UNCHANGED fatal
  BY <1>1, <1>2, <1>4, DenyTurns
<1>5. CASE state[p] = "HelloSent" /\ AcceptAuth(p)
  BY <1>1, <1>2, <1>5, AcceptTurns
<1>6. CASE Reply(p, "SRP_BYTES_S_B") /\ UNCHANGED <<state, fatal>>
  <2>1. "SRP_BYTES_S_B" \in Replies /\ "SRP_BYTES_S_B" \notin Steps
    BY DEF Replies, Steps
  <2>2. /\ \A q \in Peers \ {p} : outbox'[q] = outbox[q]
        /\ outbox'[p] = outbox[p] \/ outbox'[p] = Append(outbox[p], "SRP_BYTES_S_B")
    BY <1>6, <2>1, ReplyOthers
  <2>3. ASSUME NEW q \in Peers
        PROVE  NextTurn(q)
    <3>1. outbox'[q] = outbox[q] \/ \E m : m \notin Steps /\ outbox'[q] = Append(outbox[q], m)
      BY <2>1, <2>2
    <3>2. QED
      BY <1>1, <1>6, <3>1, QuietTurn
  <2>4. ~fatal'
    BY <1>6 DEF Turns
  <2>5. QED
    BY <1>1, <1>2, <2>3, <2>4, ServeTurns
<1>7. QED
  BY <1>3, <1>4, <1>5, <1>6 DEF HandleFirstSrp, HandleBytesA, HandleBytesM

\* INIT2 comes from a client that awaits it, or from one that is on its way out.
LEMMA Init2Turns ==
    ASSUME IInv, Turns, NEW p \in Peers, HandleInit2(p)
    PROVE  Turns'
<1>1. /\ packets /= <<>> /\ packets' = Tail(packets) /\ Head(packets) = Packet(p, "INIT2")
      /\ UNCHANGED <<conn, inbox, changes>>
      /\ state[p] /= "none" /\ ~Expected(p)
  BY Handled DEF HandleInit2, Commands
<1>2. /\ player' = player /\ leaving' = leaving /\ Reply(p, "DEFINITIONS")
      /\ Event(p, "AwaitingInit2", "DefinitionsSent") /\ InTurn(p)
  BY DEF HandleInit2, playerVars, Turns
<1>3. "DEFINITIONS" \in Replies /\ "DEFINITIONS" \in Due("DefinitionsSent") /\ "INIT2" \in Steps
  BY DEF Replies, Due, Steps
<1>4. CASE state[p] \in Denying
  <2>1. state' = state /\ fatal' = fatal
    BY <1>2, <1>4 DEF Event, Denying, IInv, TypeOK, ThreadType
  <2>2. ASSUME NEW q \in Peers
        PROVE  NextTurn(q)
    <3>1. CASE q = p
      BY <1>1, <1>2, <1>4, <2>1, <3>1 DEF NextTurn, InTurn
    <3>2. CASE q /= p
      BY <1>1, <1>2, <1>3, <2>1, <3>2, ReplyOthers, QuietTurn
    <3>3. QED
      BY <3>1, <3>2
  <2>3. QED
    BY <1>1, <1>2, <2>1, <2>2, ServeTurns DEF Turns
<1>5. CASE state[p] \notin Denying
  <2>1. AtMostOne(outbox[p], inbox[p], packets, p, Due(state[p]))
    BY <1>2, <1>5 DEF InTurn
  <2>2. "INIT2" \in Due(state[p]) /\ AtMostOne(outbox[p], inbox[p], packets', p, {})
    BY <1>1, <1>3, <2>1, TurnTypes, QueueMoves
  <2>3. state[p] = "AwaitingInit2"
    BY <2>2 DEF Due
  <2>4. state' = [state EXCEPT ![p] = "DefinitionsSent"] /\ fatal' = fatal
    BY <1>2, <2>3 DEF Event
  <2>5. QED
    BY <1>1, <1>2, <1>3, <2>2, <2>4, MoveOn
<1>6. QED
  BY <1>4, <1>5

\* CLIENT_READY comes once.
LEMMA ReadyTurns ==
    ASSUME IInv, Turns, NEW p \in Peers, HandleClientReady(p)
    PROVE  Turns'
<1>1. /\ packets /= <<>> /\ packets' = Tail(packets)
      /\ Head(packets) = Packet(p, "CLIENT_READY")
      /\ UNCHANGED <<conn, inbox, changes, leaving>>
  BY DEF HandleClientReady, Resume, AtHead, Packet
<1>2. CASE DenyAccess(p) /\ UNCHANGED <<player, fatal>>
  BY <1>1, <1>2, DenyTurns
<1>3. CASE /\ CanEmerge(p) /\ player' = [player EXCEPT ![name[p]] = p]
           /\ Event(p, "DefinitionsSent", "Active") /\ outbox' = outbox
  <2>1. AtLeast(p, "InitDone") /\ InTurn(p) /\ state[p] \in States
    BY <1>3 DEF CanEmerge, Turns, IInv, TypeOK, ClientType
  <2>2. state[p] \notin Denying
    BY <2>1 DEF AtLeast, StateRank, Denying
  <2>3. AtMostOne(outbox[p], inbox[p], packets, p, Due(state[p])) /\ ~Expected(p)
    BY <2>1, <2>2 DEF InTurn, Denying
  <2>4. "CLIENT_READY" \in Due(state[p]) /\ AtMostOne(outbox[p], inbox[p], packets', p, {})
    <3>1. "CLIENT_READY" \in Steps
      BY DEF Steps
    <3>2. QED
      BY <1>1, <2>3, <3>1, TurnTypes, QueueMoves
  <2>5. state[p] = "DefinitionsSent"
    BY <2>4 DEF Due
  <2>6. state' = [state EXCEPT ![p] = "Active"] /\ fatal' = fatal
    BY <1>3, <2>5 DEF Event
  <2>7. ASSUME NEW q \in Peers
        PROVE  NextTurn(q)
    <3>1. CASE q = p
      <4>1. state'[p] = "Active"
        BY <2>6 DEF IInv, TypeOK, ClientType
      <4>2. Due("Active") = {}
        BY DEF Due
      <4>3. QED
        BY <1>3, <2>4, <2>5, <3>1, <4>1, <4>2 DEF NextTurn
    <3>2. CASE q /= p
      <4>1. state'[q] = state[q]
        BY <2>6, <3>2 DEF IInv, TypeOK, ClientType
      <4>2. QED
        BY <1>1, <1>3, <4>1, QuietTurn
    <3>3. QED
      BY <3>1, <3>2
  <2>8. \A q \in Peers : \A n \in Names \ leaving' :
           player'[n] = q => (n \notin leaving /\ player[n] = q) \/ state[q] /= "none"
    BY <1>1, <1>3, <2>5 DEF IInv, TypeOK, PlayerType
  <2>9. ~fatal'
    BY <2>6 DEF Turns
  <2>10. QED
    BY <1>1, <2>7, <2>8, <2>9, ServeTurns
<1>4. QED
  BY <1>2, <1>3 DEF HandleClientReady

LEMMA GotBlocksTurns ==
    ASSUME IInv, Turns, NEW p \in Peers, HandleGotBlocks(p)
    PROVE  Turns'
BY SkipTurns DEF HandleGotBlocks, Resume, AtHead

LEMMA IdleTurns ==
    ASSUME IInv, Turns,
           \/ EndChanges \/ EndPackets \/ UpdateObjects \/ UNCHANGED vars
           \/ \E p \in Peers : LookUp(p)
    PROVE  Turns'
<1>1. UNCHANGED <<conn, inbox, outbox, packets, changes, state, player, leaving, fatal>>
  BY DEF EndChanges, EndPackets, UpdateObjects, LookUp, vars, netVars, queueVars, clientVars,
         playerVars, faultVars
<1>2. QED
  BY <1>1, SameTurns

LEMMA TurnsStep == IInv /\ Turns /\ [Next]_vars => Turns'
<1> SUFFICES ASSUME IInv, Turns, [Next]_vars PROVE Turns'
  OBVIOUS
<1>1. CASE PeerChange
  BY <1>1, PeerChangeTurns
<1>2. CASE EndChanges \/ EndPackets \/ UpdateObjects \/ UNCHANGED vars
  BY <1>2, IdleTurns
<1>3. CASE RemoveObjects
  BY <1>3, RemoveTurns
<1>4. ASSUME NEW p \in Peers, HandlePacket(p)
      PROVE  Turns'
  BY <1>4, NoClientTurns, InitTurns, AuthTurns, Init2Turns, IdleTurns, ReadyTurns,
     GotBlocksTurns DEF HandlePacket
<1>5. ASSUME NEW p \in Peers,
             \/ Connect(p) \/ SendInit(p) \/ ClientReacts(p) \/ SendGotBlocks(p)
             \/ ClosePeer(p) \/ Receive(p) \/ Kick(p)
      PROVE  Turns'
  BY <1>5, ConnectTurns, SendTurns, ReactTurns, CloseTurns, ReceiveTurns, KickTurns
<1>6. QED
  BY <1>1, <1>2, <1>3, <1>4, <1>5 DEF Next, ServerThread

LEMMA TurnsBegin == Init => Turns
<1> SUFFICES ASSUME Init, NEW p \in Peers
             PROVE  ~fatal /\ InTurn(p) /\ Arrival(p) /\ Departure(p)
  BY DEF Turns, Init
<1>1. /\ conn[p] = "new" /\ inbox[p] = <<>> /\ outbox[p] = <<>> /\ changes = <<>>
      /\ packets = <<>> /\ state[p] = "none" /\ fatal = FALSE
  BY DEF Init
<1>2. \A T : Free(<<>>, T) /\ Few(<<>>, T)
  BY DEF Free, Few
<1>3. InTurn(p)
  BY <1>1, <1>2 DEF InTurn, AtMostOne
<1>4. Arrival(p)
  BY <1>1, <1>2 DEF Arrival, AddedFirst
<1>5. Departure(p)
  BY <1>1 DEF Departure
<1>6. QED
  BY <1>1, <1>3, <1>4, <1>5

\* For any number of peers and names: whatever the order of a removal and the packets
\* behind it, nothing is left that no removal will clean up, and no packet of a
\* well-behaved client ends the server thread.
THEOREM SpecNoLooseEnds == Spec => []NoLooseEnds
<1>1. Turns => NoLooseEnds
  <2>1. Turns => NoFatal
    BY DEF Turns, NoFatal
  <2>2. Turns => NothingOrphaned
    BY DEF Turns, NothingOrphaned, Departure, RemovalUnderWay, Free, Change
  <2>3. QED
    BY <2>1, <2>2 DEF NoLooseEnds
<1>2. QED
  BY InitIsRight, StepPreserves, TurnsBegin, TurnsStep, <1>1, PTL DEF Spec
==============================================================================

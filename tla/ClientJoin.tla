----------------------------- MODULE ClientJoin -----------------------------
(***************************************************************************)
(* How a client joins a server and leaves it.                               *)
(*                                                                          *)
(* Three places remember a session: the connection has its peer, the        *)
(* ClientInterface its RemoteClient with the state of the handshake, and    *)
(* the environment its RemotePlayer, which owns the name until the player's *)
(* object is gone.  Two threads of the server work on them:                 *)
(*   - the network thread (Server::Receive) takes the connection's events.  *)
(*     It only queues packets and peer changes, but it also sets the state  *)
(*     of a client whose peer is gone;                                      *)
(*   - the server thread (AsyncRunStep) takes the peer changes, steps the   *)
(*     environment, tells the clients which objects came and went, and      *)
(*     handles the queued packets, in that order.                           *)
(*                                                                          *)
(* A handler is one action: all the network thread can do meanwhile is to   *)
(* set the state to Disconnecting, which is final and then as good as done  *)
(* after the handler.  CLIENT_READY and GOTBLOCKS are the exceptions: they  *)
(* look the client up twice, and are two actions each.                      *)
(***************************************************************************)
EXTENDS Naturals, Sequences, FiniteSets

CONSTANTS
    Peers,      \* peer ids, one for each session
    NoPeer,     \* PEER_ID_INEXISTENT
    Names,      \* player names
    MaxUsers,   \* max_users
    Readers,    \* bound: the peers that receive a block
    LatePackets \* bound: whether a packet may come after its peer's removal

ASSUME ClientJoinAssumption ==
    /\ NoPeer \notin Peers
    /\ MaxUsers \in Nat \ {0}
    /\ Readers \subseteq Peers
    /\ LatePackets \in BOOLEAN

VARIABLES
    conn,       \* conn[p]: new, up (in m_peers), down
    kicked,     \* peers the server told the connection to disconnect
    inbox,      \* inbox[p]: the connection's events for the server, in order
    outbox,     \* outbox[p]: what the server sent p, in order
    cl,         \* cl[p]: how far the client's own handshake is
    name,       \* name[p]: the name the client sends
    changes,    \* m_peer_change_queue
    packets,    \* QueuedPackets
    phase,      \* where the server thread is in AsyncRunStep
    serving,    \* the peer whose GOTBLOCKS is being handled
    state,      \* state[p]: RemoteClient::m_state, none if there is no client
    allowed,    \* allowed[p]: allowed_auth_mechs
    mech,       \* mech[p]: chosen_mech is set
    authDB,     \* names with an entry in the auth database
    player,     \* player[n]: peer id of the RemotePlayer called n
    leaving,    \* names whose PlayerSAO is marked for removal
    known,      \* known[p]: the player objects in p's m_known_objects
    inGame,     \* peers of which Lua has seen on_joinplayer, not on_leaveplayer
    fatal,      \* an exception ServerThread::run does not catch
    nullUsed    \* a handler used a client it did not find

netVars == <<conn, kicked, inbox, outbox, cl, name>>
queueVars == <<changes, packets>>
clientVars == <<state, allowed, mech>>
playerVars == <<authDB, player, leaving, known, inGame>>
faultVars == <<fatal, nullUsed>>
vars == <<netVars, queueVars, phase, serving, clientVars, playerVars, faultVars>>

------------------------------------------------------------------------------
(* enum ClientState, in its order *)

StateRank ==
    [none |-> 0, Disconnecting |-> 1, Denied |-> 2, Created |-> 3,
     AwaitingInit2 |-> 4, HelloSent |-> 5, InitDone |-> 6,
     DefinitionsSent |-> 7, Active |-> 8]

States == DOMAIN StateRank

AtLeast(p, s) == state[p] /= "none" /\ StateRank[state[p]] >= StateRank[s]

Commands == {"INIT", "FIRST_SRP", "SRP_BYTES_A", "SRP_BYTES_M", "INIT2",
             "CLIENT_READY", "GOTBLOCKS"}

Replies == {"HELLO_first", "HELLO_srp", "SRP_BYTES_S_B", "AUTH_ACCEPT",
            "DEFINITIONS", "ACCESS_DENIED"}

Init ==
    /\ conn = [p \in Peers |-> "new"]
    /\ kicked = {}
    /\ inbox = [p \in Peers |-> <<>>]
    /\ outbox = [p \in Peers |-> <<>>]
    /\ cl = [p \in Peers |-> "off"]
    /\ name \in [Peers -> Names]
    /\ changes = <<>>
    /\ packets = <<>>
    /\ phase = "changes"
    /\ serving = NoPeer
    /\ state = [p \in Peers |-> "none"]
    /\ allowed = [p \in Peers |-> "none"]
    /\ mech = [p \in Peers |-> FALSE]
    /\ authDB \in SUBSET Names
    /\ player = [n \in Names |-> NoPeer]
    /\ leaving = {}
    /\ known = [p \in Peers |-> {}]
    /\ inGame = {}
    /\ fatal = FALSE
    /\ nullUsed = FALSE

------------------------------------------------------------------------------
(* The client *)

Tell(p, cmd) == inbox' = [inbox EXCEPT ![p] = Append(@, cmd)]

Connect(p) ==
    /\ conn[p] = "new"
    /\ conn' = [conn EXCEPT ![p] = "up"]
    /\ cl' = [cl EXCEPT ![p] = "created"]
    /\ inbox' = [inbox EXCEPT ![p] = <<"added">>]
    /\ UNCHANGED <<kicked, outbox, name, queueVars, phase, serving, clientVars,
                   playerVars, faultVars>>

\* An INIT of p has not been handled.
InitPending(p) ==
    \/ \E i \in DOMAIN inbox[p] : inbox[p][i] = "INIT"
    \/ \E i \in DOMAIN packets : packets[i] = [p |-> p, cmd |-> "INIT"]

\* Mutant: INIT is sent once.
SendInit_Once(p) ==
    /\ conn[p] = "up" /\ cl[p] = "created"
    /\ Tell(p, "INIT")
    /\ cl' = [cl EXCEPT ![p] = "auth"]
    /\ UNCHANGED <<conn, kicked, outbox, name, queueVars, phase, serving,
                   clientVars, playerVars, faultVars>>

\* Every two seconds until AUTH_ACCEPT comes (m_state is LC_Created), also while
\* authentication goes on.  Bound: not while one is pending.
SendInit(p) ==
    /\ conn[p] = "up"
    /\ cl[p] \in {"created", "auth"}
    /\ ~InitPending(p)
    /\ Tell(p, "INIT")
    /\ UNCHANGED <<conn, kicked, outbox, cl, name, queueVars, phase, serving,
                   clientVars, playerVars, faultVars>>

Got(p, reply) ==
    /\ conn[p] = "up"
    /\ outbox[p] /= <<>> /\ Head(outbox[p]) = reply
    /\ outbox' = [outbox EXCEPT ![p] = Tail(@)]

\* The client's answer to each reply.
Answer(p, reply, cmd, next) ==
    /\ Got(p, reply)
    /\ Tell(p, cmd)
    /\ cl' = [cl EXCEPT ![p] = next]
    /\ UNCHANGED <<conn, kicked, name, queueVars, phase, serving, clientVars,
                   playerVars, faultVars>>

GotHelloFirst(p) == Answer(p, "HELLO_first", "FIRST_SRP", "auth")
GotHelloSrp(p) == Answer(p, "HELLO_srp", "SRP_BYTES_A", "auth")
GotBytesB(p) == Answer(p, "SRP_BYTES_S_B", "SRP_BYTES_M", "auth")
GotAccept(p) == Answer(p, "AUTH_ACCEPT", "INIT2", "init")
GotDefinitions(p) == Answer(p, "DEFINITIONS", "CLIENT_READY", "ready")

ClientReacts(p) ==
    GotHelloFirst(p) \/ GotHelloSrp(p) \/ GotBytesB(p) \/ GotAccept(p)
    \/ GotDefinitions(p)

\* The player received a block.  Bound: once, and only the readers.
SendGotBlocks(p) ==
    /\ p \in Readers
    /\ conn[p] = "up" /\ cl[p] = "ready" /\ state[p] = "Active"
    /\ Tell(p, "GOTBLOCKS")
    /\ cl' = [cl EXCEPT ![p] = "playing"]
    /\ UNCHANGED <<conn, kicked, outbox, name, queueVars, phase, serving,
                   clientVars, playerVars, faultVars>>

\* The peer leaves m_peers: the client quits or is denied, it times out, or the
\* connection carries out the server's DisconnectPeer.  The packet the connection
\* is at may follow the event (EventsInOrder of PeerLifecycle).
ClosePeer(p) ==
    /\ conn[p] = "up"
    /\ conn' = [conn EXCEPT ![p] = "down"]
    /\ cl' = [cl EXCEPT ![p] = "left"]
    /\ LET n == Len(inbox[p]) IN
       \/ inbox' = [inbox EXCEPT ![p] = Append(@, "removed")]
       \/ /\ LatePackets /\ n > 0 /\ inbox[p][n] \in Commands
          /\ inbox' = [inbox EXCEPT ![p] = SubSeq(@, 1, n - 1) \o <<"removed", @[n]>>]
    /\ outbox' = [outbox EXCEPT ![p] = <<>>]
    /\ kicked' = kicked \ {p}
    /\ UNCHANGED <<name, queueVars, phase, serving, clientVars, playerVars, faultVars>>

------------------------------------------------------------------------------
(* The network thread: Server::Receive, peerAdded and deletingPeer *)

\* Mutant: the removal of a peer that has no client yet is dropped.
Receive_OnlyKnown(p) ==
    /\ inbox[p] /= <<>>
    /\ inbox' = [inbox EXCEPT ![p] = Tail(@)]
    /\ LET e == Head(inbox[p]) IN
       /\ changes' = IF e = "added" \/ (e = "removed" /\ state[p] /= "none")
                     THEN Append(changes, [kind |-> e, p |-> p]) ELSE changes
       /\ packets' = IF e \in Commands THEN Append(packets, [p |-> p, cmd |-> e])
                                       ELSE packets
       /\ state' = [state EXCEPT ![p] =
                       IF e = "removed" /\ AtLeast(p, "Created") THEN "Disconnecting"
                                                                 ELSE @]
    /\ UNCHANGED <<conn, kicked, outbox, cl, name, phase, serving, allowed, mech,
                   playerVars, faultVars>>

Receive(p) ==
    /\ inbox[p] /= <<>>
    /\ inbox' = [inbox EXCEPT ![p] = Tail(@)]
    /\ LET e == Head(inbox[p]) IN
       IF e \in Commands
       THEN /\ packets' = Append(packets, [p |-> p, cmd |-> e])
            /\ UNCHANGED <<changes, state>>
       ELSE /\ changes' = Append(changes, [kind |-> e, p |-> p])
            /\ state' = [state EXCEPT ![p] =
                            IF e = "removed" /\ @ \notin {"none", "Denied"}
                            THEN "Disconnecting" ELSE @]
            /\ UNCHANGED packets
    /\ UNCHANGED <<conn, kicked, outbox, cl, name, phase, serving, allowed, mech,
                   playerVars, faultVars>>

------------------------------------------------------------------------------
(* What the server thread sends and sets in several places *)

\* To a peer that is gone nothing is sent.
Reply(p, reply) ==
    outbox' = IF conn[p] = "up" THEN [outbox EXCEPT ![p] = Append(@, reply)]
              ELSE outbox

\* RemoteClient::notifyEvent.  A client that is denied or disconnecting takes no
\* event; the others take this one only in state "from".
Event(p, from, to) ==
    IF state[p] = from
    THEN /\ state' = [state EXCEPT ![p] = to]
         /\ UNCHANGED fatal
    ELSE /\ fatal' = (fatal \/ state[p] \notin {"none", "Denied", "Disconnecting"})
         /\ UNCHANGED state

DenyAccess(p) ==
    /\ Reply(p, "ACCESS_DENIED")
    /\ state' = [state EXCEPT ![p] =
                    IF @ \in {"none", "Disconnecting"} THEN @ ELSE "Denied"]
    /\ mech' = [mech EXCEPT ![p] = @ /\ state[p] /= "HelloSent"]
    /\ kicked' = IF conn[p] = "up" THEN kicked \cup {p} ELSE kicked

------------------------------------------------------------------------------
(* The server thread: handlePeerChanges *)

\* Mutant: the count of the objects the client knew is not taken back.
DeleteClient_KeepKnown(p) ==
    /\ state' = [state EXCEPT ![p] = "none"]
    /\ leaving' = leaving \cup {n \in Names : player[n] = p}
    /\ inGame' = inGame \ {p}
    /\ UNCHANGED <<allowed, mech, authDB, player, known>>

\* Server::DeleteClient.  The player's object is only marked.
DeleteClient(p) ==
    /\ state' = [state EXCEPT ![p] = "none"]
    /\ known' = [known EXCEPT ![p] = {}]
    /\ leaving' = leaving \cup {n \in Names : player[n] = p}
    /\ inGame' = inGame \ {p}
    /\ UNCHANGED <<allowed, mech, authDB, player>>

CreateClient(p) ==
    /\ state' = IF state[p] = "none" THEN [state EXCEPT ![p] = "Created"] ELSE state
    /\ UNCHANGED <<allowed, mech, playerVars>>

PeerChange ==
    /\ phase = "changes"
    /\ changes /= <<>>
    /\ changes' = Tail(changes)
    /\ IF Head(changes).kind = "added"
       THEN CreateClient(Head(changes).p)
       ELSE DeleteClient(Head(changes).p)
    /\ UNCHANGED <<netVars, packets, phase, serving, faultVars>>

EndChanges ==
    /\ phase = "changes"
    /\ changes = <<>>
    /\ phase' = "env"
    /\ UNCHANGED <<netVars, queueVars, serving, clientVars, playerVars, faultVars>>

------------------------------------------------------------------------------
(* The server thread: the environment *)

Known(n) == \E p \in Peers : n \in known[p]

\* Mutant: a marked object goes at once.
GoesNow_AtOnce(n) == n \in leaving

\* removeRemovedObjects: a marked object goes, and the player with it, once no
\* client knows it any more.
GoesNow(n) == n \in leaving /\ ~Known(n)

\* Mutant: the mark outlives the object.
RemoveObjects_KeepMark ==
    /\ phase = "env"
    /\ \E n \in Names : GoesNow(n)
    /\ player' = [n \in Names |-> IF GoesNow(n) THEN NoPeer ELSE player[n]]
    /\ UNCHANGED <<netVars, queueVars, phase, serving, clientVars, authDB, leaving,
                   known, inGame, faultVars>>

RemoveObjects ==
    /\ phase = "env"
    /\ \E n \in Names : GoesNow(n)
    /\ player' = [n \in Names |-> IF GoesNow(n) THEN NoPeer ELSE player[n]]
    /\ leaving' = {n \in leaving : ~GoesNow(n)}
    /\ UNCHANGED <<netVars, queueVars, phase, serving, clientVars, authDB, known,
                   inGame, faultVars>>

\* A mod kicks a player.
Kick(p) ==
    /\ phase = "env"
    /\ \E n \in Names : player[n] = p
    /\ conn[p] = "up" /\ p \notin kicked
    /\ DenyAccess(p)
    /\ UNCHANGED <<conn, inbox, cl, name, queueVars, phase, serving, allowed,
                   playerVars, faultVars>>

\* SendActiveObjectRemoveAdd for every client with definitions and a player:
\* of the other players' objects those in range are known, those marked never.
UpdateObjects ==
    /\ phase = "env"
    /\ phase' = "packets"
    /\ \E seen \in [Peers -> SUBSET Names] :
          known' = [p \in Peers |->
                       IF AtLeast(p, "DefinitionsSent") /\ player[name[p]] = p
                       THEN {n \in seen[p] \cup {name[p]} :
                                player[n] /= NoPeer /\ n \notin leaving}
                       ELSE known[p]]
    /\ UNCHANGED <<netVars, queueVars, serving, clientVars, authDB, player, leaving,
                   inGame, faultVars>>

------------------------------------------------------------------------------
(* The server thread: the queued packets *)

\* The packet at the head of the queue.  It stays there until it is done: the
\* network thread only appends.
AtHead(p, cmd) ==
    /\ phase = "packets"
    /\ packets /= <<>> /\ Head(packets) = [p |-> p, cmd |-> cmd]

\* ProcessData asks for the client's address before the handler is chosen, and for
\* CLIENT_READY and GOTBLOCKS for a client past INIT2.
Found(p, cmd) ==
    IF cmd \in {"CLIENT_READY", "GOTBLOCKS"} THEN AtLeast(p, "InitDone")
                                            ELSE state[p] /= "none"

\* ClientNotFoundException leaves AsyncRunStep; the packets behind wait for the
\* next one.
Abandon == phase' = "changes"

NoClient(p) ==
    /\ \E cmd \in Commands : AtHead(p, cmd) /\ ~Found(p, cmd)
    /\ serving = NoPeer
    /\ packets' = Tail(packets)
    /\ Abandon
    /\ UNCHANGED <<netVars, changes, serving, clientVars, playerVars, faultVars>>

Handle(p, cmd) ==
    /\ AtHead(p, cmd) /\ Found(p, cmd)
    /\ serving = NoPeer
    /\ packets' = Tail(packets)
    /\ UNCHANGED <<conn, inbox, cl, name, changes, serving, nullUsed>>

\* isUserLimitReached
UserLimitReached == Cardinality({q \in Peers : AtLeast(q, "HelloSent")}) >= MaxUsers

\* Mutant: a repeated INIT is answered again.
StartsOver_Always(p) == AtLeast(p, "Created")

\* Only the first INIT begins a handshake.
StartsOver(p) == state[p] = "Created"

\* A repeated INIT is ignored.  The version, the name or a mod may forbid to join.
HandleInit(p) ==
    /\ Handle(p, "INIT")
    /\ \/ /\ conn[p] /= "up" \/ (AtLeast(p, "Created") /\ ~StartsOver(p))
          /\ UNCHANGED <<kicked, outbox, phase, clientVars, playerVars, fatal>>
       \/ /\ conn[p] = "up" /\ ~AtLeast(p, "Created")
          /\ Abandon
          /\ UNCHANGED <<kicked, outbox, clientVars, playerVars, fatal>>
       \/ /\ conn[p] = "up" /\ StartsOver(p)
          /\ DenyAccess(p)
          /\ UNCHANGED <<phase, allowed, playerVars, fatal>>
       \/ /\ conn[p] = "up" /\ StartsOver(p)
          /\ ~UserLimitReached
          /\ LET auth == IF name[p] \in authDB THEN "srp" ELSE "first" IN
             /\ allowed' = [allowed EXCEPT ![p] = auth]
             /\ Reply(p, IF auth = "srp" THEN "HELLO_srp" ELSE "HELLO_first")
          /\ mech' = [mech EXCEPT ![p] = FALSE]
          /\ Event(p, "Created", "HelloSent")
          /\ UNCHANGED <<kicked, phase, playerVars>>

\* acceptAuth
AcceptAuth(p) ==
    /\ Reply(p, "AUTH_ACCEPT")
    /\ Event(p, "HelloSent", "AwaitingInit2")
    /\ mech' = [mech EXCEPT ![p] = FALSE]
    /\ UNCHANGED kicked

\* A new name is registered; another peer may have been faster.  An empty password
\* may be refused.
HandleFirstSrp(p) ==
    /\ Handle(p, "FIRST_SRP")
    /\ UNCHANGED <<phase, allowed, player, leaving, known, inGame>>
    /\ \/ /\ state[p] /= "HelloSent"
          /\ UNCHANGED <<kicked, outbox, state, mech, authDB, fatal>>
       \/ /\ state[p] = "HelloSent"
          /\ DenyAccess(p)
          /\ UNCHANGED <<authDB, fatal>>
       \/ /\ state[p] = "HelloSent"
          /\ allowed[p] = "first" /\ name[p] \notin authDB
          /\ authDB' = authDB \cup {name[p]}
          /\ AcceptAuth(p)

\* One authentication at a time; the values may be refused.
HandleBytesA(p) ==
    /\ Handle(p, "SRP_BYTES_A")
    /\ UNCHANGED <<phase, allowed, playerVars, fatal>>
    /\ \/ /\ state[p] /= "HelloSent"
          /\ UNCHANGED <<kicked, outbox, state, mech>>
       \/ /\ state[p] = "HelloSent"
          /\ DenyAccess(p)
       \/ /\ state[p] = "HelloSent"
          /\ ~mech[p] /\ allowed[p] = "srp"
          /\ mech' = [mech EXCEPT ![p] = TRUE]
          /\ Reply(p, "SRP_BYTES_S_B")
          /\ UNCHANGED <<kicked, state>>

\* The password is right or wrong.
HandleBytesM(p) ==
    /\ Handle(p, "SRP_BYTES_M")
    /\ UNCHANGED <<phase, allowed, playerVars>>
    /\ \/ /\ state[p] /= "HelloSent"
          /\ UNCHANGED <<kicked, outbox, state, mech, fatal>>
       \/ /\ state[p] = "HelloSent"
          /\ DenyAccess(p)
          /\ UNCHANGED fatal
       \/ /\ state[p] = "HelloSent"
          /\ mech[p]
          /\ AcceptAuth(p)

\* INIT2 passes through InitDone; the definitions are sent whatever the state.
HandleInit2(p) ==
    /\ Handle(p, "INIT2")
    /\ Reply(p, "DEFINITIONS")
    /\ Event(p, "AwaitingInit2", "DefinitionsSent")
    /\ IF state[p] \in {"Denied", "Disconnecting"} THEN Abandon ELSE UNCHANGED phase
    /\ UNCHANGED <<kicked, allowed, mech, playerVars>>

\* CLIENT_READY and GOTBLOCKS look the client up again: this is the first look.
LookUp(p) ==
    /\ \E cmd \in {"CLIENT_READY", "GOTBLOCKS"} : AtHead(p, cmd) /\ Found(p, cmd)
    /\ serving = NoPeer
    /\ serving' = p
    /\ UNCHANGED <<netVars, queueVars, phase, clientVars, playerVars, faultVars>>

Resume(p, cmd) ==
    /\ AtHead(p, cmd)
    /\ serving = p
    /\ serving' = NoPeer
    /\ packets' = Tail(packets)
    /\ UNCHANGED <<conn, inbox, cl, name, changes, phase, allowed, authDB, leaving,
                   known>>

\* Mutant: only the peer id is looked up.
CanEmerge_OneName(p) ==
    /\ AtLeast(p, "InitDone")
    /\ \A n \in Names : player[n] /= p

\* emergePlayer refuses a name or a peer id that has a player.
CanEmerge(p) ==
    /\ AtLeast(p, "InitDone")
    /\ player[name[p]] = NoPeer
    /\ \A n \in Names : player[n] /= p

HandleClientReady(p) ==
    /\ Resume(p, "CLIENT_READY")
    /\ UNCHANGED nullUsed
    /\ \/ /\ ~CanEmerge(p)
          /\ DenyAccess(p)
          /\ UNCHANGED <<player, inGame, fatal>>
       \/ /\ CanEmerge(p)
          /\ player' = [player EXCEPT ![name[p]] = p]
          /\ inGame' = inGame \cup {p}
          /\ Event(p, "DefinitionsSent", "Active")
          /\ UNCHANGED <<kicked, outbox, mech>>

\* The second look is for an active client, and its result is used unchecked.
HandleGotBlocks(p) ==
    /\ Resume(p, "GOTBLOCKS")
    /\ nullUsed' = (nullUsed \/ ~AtLeast(p, "Active"))
    /\ UNCHANGED <<kicked, outbox, state, mech, player, inGame, fatal>>

EndPackets ==
    /\ phase = "packets"
    /\ packets = <<>>
    /\ phase' = "changes"
    /\ UNCHANGED <<netVars, queueVars, serving, clientVars, playerVars, faultVars>>

------------------------------------------------------------------------------

HandlePacket(p) ==
    \/ NoClient(p) \/ HandleInit(p) \/ HandleFirstSrp(p) \/ HandleBytesA(p)
    \/ HandleBytesM(p) \/ HandleInit2(p) \/ LookUp(p) \/ HandleClientReady(p)
    \/ HandleGotBlocks(p)

ServerThread == PeerChange \/ EndChanges \/ UpdateObjects \/ \E p \in Peers : HandlePacket(p)

Next ==
    \/ ServerThread \/ RemoveObjects \/ EndPackets
    \/ \E p \in Peers :
          \/ Connect(p) \/ SendInit(p) \/ ClientReacts(p) \/ SendGotBlocks(p)
          \/ ClosePeer(p) \/ Receive(p) \/ Kick(p)

\* Both threads of the server run; a client answers what it gets and repeats INIT;
\* the connection disconnects whom it is told to.  Objects are removed every half
\* a second, and the packets that wait are a finite number: INIT, the one that is
\* repeated, is sent every two seconds.
Fairness ==
    /\ WF_vars(ServerThread) /\ SF_vars(RemoveObjects) /\ SF_vars(EndPackets)
    /\ \A p \in Peers :
          /\ WF_vars(SendInit(p)) /\ WF_vars(ClientReacts(p)) /\ WF_vars(Receive(p))
          /\ WF_vars(p \in kicked /\ ClosePeer(p))

Spec == Init /\ [][Next]_vars /\ Fairness

------------------------------------------------------------------------------
(* Correctness *)

Auths == {"none", "first", "srp"}

NetType ==
    /\ conn \in [Peers -> {"new", "up", "down"}]
    /\ kicked \in SUBSET Peers
    /\ inbox \in [Peers -> Seq(Commands \cup {"added", "removed"})]
    /\ outbox \in [Peers -> Seq(Replies)]
    /\ cl \in [Peers -> {"off", "created", "auth", "init", "ready", "playing", "left"}]
    /\ name \in [Peers -> Names]

QueueType ==
    /\ changes \in Seq([kind : {"added", "removed"}, p : Peers])
    /\ packets \in Seq([p : Peers, cmd : Commands])

ThreadType ==
    /\ phase \in {"changes", "env", "packets"}
    /\ serving \in Peers \cup {NoPeer}
    /\ fatal \in BOOLEAN
    /\ nullUsed \in BOOLEAN

ClientType ==
    /\ state \in [Peers -> States]
    /\ allowed \in [Peers -> Auths]
    /\ mech \in [Peers -> BOOLEAN]

PlayerType ==
    /\ authDB \in SUBSET Names
    /\ player \in [Names -> Peers \cup {NoPeer}]
    /\ leaving \in SUBSET {n \in Names : player[n] /= NoPeer}
    /\ known \in [Peers -> SUBSET Names]
    /\ inGame \in SUBSET Peers

\* Every variable keeps its type; only players that exist are marked for removal.
TypeOK == NetType /\ QueueType /\ ThreadType /\ ClientType /\ PlayerType

\* A client that is active, and a player Lua believes to be in the game, owns its
\* name, and the player's object is not on its way out.  So of two peers with one
\* name only one plays, whatever the order of their handshakes, and a player comes
\* back only after the last one's object is gone (StageTwoClientInit, DeleteClient).
SessionOwnsName ==
    \A p \in Peers :
        state[p] = "Active" \/ p \in inGame
            => player[name[p]] = p /\ name[p] \notin leaving

\* A client knows only objects that exist: m_known_by_count keeps a player's
\* object until the last client has been told (removeRemovedObjects).
KnownIsThere ==
    \A p \in Peers : \A n \in known[p] : player[n] /= NoPeer

\* What a peer that is gone left behind, its client or a player that is not
\* marked, has a removal on the way: CLIENT_READY or INIT handled after the peer
\* is gone leaves nothing that nobody would clean up (handlePeerChanges).
NothingOrphaned ==
    \A p \in Peers :
        /\ conn[p] = "down"
        /\ state[p] /= "none" \/ \E n \in Names \ leaving : player[n] = p
        => \/ \E i \in DOMAIN inbox[p] : inbox[p][i] = "removed"
           \/ \E i \in DOMAIN changes : changes[i] = [kind |-> "removed", p |-> p]

\* No packet of a well-behaved client meets a state its event is not made for: the
\* server thread would end with a ClientStateError (notifyEvent).  INIT is repeated
\* during the authentication, and a removal may come between any two packets.
NoFatal == ~fatal

NoLooseEnds == NothingOrphaned /\ NoFatal

\* No handler uses a client that does not exist.  This one does not hold: the state
\* is looked at twice, and deletingPeer may come in between (handleCommand_GotBlocks).
NoNullClient == ~nullUsed

\* A peer that is gone is forgotten: its client, its player and so its name.
GoneIsForgotten ==
    \A p \in Peers :
        conn[p] = "down" ~> state[p] = "none" /\ \A n \in Names : player[n] /= p

\* A peer that connects gets to play or is disconnected: no handshake hangs, also
\* when two peers have one name and an INIT is handled before its client exists.
GetsAnAnswer ==
    \A p \in Peers : conn[p] = "up" ~> state[p] = "Active" \/ conn[p] = "down"

EveryoneIsServed == GoneIsForgotten /\ GetsAnAnswer

==============================================================================

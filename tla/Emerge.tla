------------------------------- MODULE Emerge -------------------------------
(***************************************************************************)
(* The emerge manager (emerge.cpp): requests for blocks are queued under   *)
(* m_queue_mutex, each thread takes its positions in order, finds the      *)
(* block in memory, loads it or generates the chunk around it, and then    *)
(* calls back whoever asked.  A chunk is generated from a copy of its      *)
(* blocks and their neighbours, outside m_env_mutex.                       *)
(***************************************************************************)
EXTENDS Naturals, Sequences, FiniteSets, SequencesExt

CONSTANTS
  EmergeThreads,       (* numbers from 0                                   *)
  Positions,
  Chunks,
  Chunk,               (* Chunk[p]: getContainingChunk                     *)
  FullArea,            (* FullArea[c]: the blocks of c and their neighbours*)
  EmergePeers,
  PEER_ID_INEXISTENT,  (* who asks for active blocks and for mods          *)
  NoPosition,
  m_qlimit_total, m_qlimit_diskonly, m_qlimit_generate,
  COUNT_SIZE,          (* 2^16: m_peer_queue_count counts in u16           *)
  Worlds,              (* kinds of worlds: where each ends, what is on its *)
                       (* disk, and (bounds) which of its blocks are       *)
                       (* unloaded or deleted and how many requests come   *)
  MaxRequests,         (* bound: requests made                             *)
  Editable             (* bound: blocks whose nodes are changed, each once *)

Requests == 1 .. MaxRequests
Askers   == EmergePeers \union {PEER_ID_INEXISTENT}

ASSUME EmergeAssumption ==
  /\ EmergeThreads # {} /\ EmergeThreads \subseteq Nat /\ IsFiniteSet(EmergeThreads)
  /\ Chunk \in [Positions -> Chunks]
  /\ FullArea \in [Chunks -> SUBSET Positions]
  /\ \A p \in Positions : p \in FullArea[Chunk[p]]
  /\ PEER_ID_INEXISTENT \notin EmergePeers
  /\ NoPosition \notin Positions
  /\ {m_qlimit_total, m_qlimit_diskonly, m_qlimit_generate} \subseteq Nat \ {0}
  /\ COUNT_SIZE \in Nat \ {0}
  /\ Worlds \subseteq [reach : [Positions -> {"mapgen", "map", "outside"}],
                       generated : SUBSET Positions, damaged : SUBSET Positions,
                       movable : SUBSET Positions, requests : 0 .. MaxRequests]
  /\ MaxRequests \in Nat
  /\ Editable \subseteq Positions

VARIABLES
  world,                (* the kind of world: does not change              *)
  blocks_enqueued,      (* m_blocks_enqueued: positions, and for each its  *)
  bedata,               (* BlockEmergeData                                 *)
  peer_queue_count,     (* m_peer_queue_count                              *)
  block_queue,          (* of each thread                                  *)
  queue_event,          (* threads whose m_queue_event is notified         *)
  unsignalled,          (* threads that got a position but no signal yet   *)
  et,                   (* where each thread is, and its local variables   *)
  chunks_in_progress,   (* m_chunks_in_progress                            *)
  loaded, generated, edited,           (* blocks in memory                 *)
  stored, storedGenerated, storedEdited, damaged,  (* blocks on disk       *)
  emergeStop,           (* threads asked to stop                           *)
  asyncFatal,           (* m_async_fatal_error is set                      *)
  asked, awaited,       (* history: how many requests; those with a        *)
                        (* callback                                        *)
  called,               (* history: how often each was called back         *)
  excuse,               (* history: requests that were given up            *)
  everEdited, raced     (* history: blocks edited; while being generated   *)

queueVars  == <<blocks_enqueued, bedata, peer_queue_count, block_queue>>
mapVars    == <<loaded, generated, edited>>
diskVars   == <<stored, storedGenerated, storedEdited, damaged>>
editVars   == <<everEdited, raced>>
callVars   == <<called, excuse>>
askVars    == <<asked, awaited>>
emergeVars == <<world, queueVars, queue_event, unsignalled, et, chunks_in_progress,
                mapVars, diskVars, emergeStop, asyncFatal, askVars, callVars, editVars>>

NoData == [gen |-> FALSE, peer |-> PEER_ID_INEXISTENT, callbacks |-> <<>>]
(* What a thread holds between two positions: nothing.  copy is the edited *)
(* blocks in its copy of the map, known those with nodes in it.            *)
Idle == [pc |-> "check", pos |-> NoPosition, gen |-> FALSE, callbacks |-> <<>>,
         copy |-> {}, known |-> {}]

Central(c) == {p \in Positions : Chunk[p] = c}

EmergeInit ==
  /\ world \in Worlds
  /\ stored = world.generated \union world.damaged
  /\ storedGenerated = world.generated
  /\ damaged = world.damaged
  /\ storedEdited = {}
  /\ blocks_enqueued = {}
  /\ bedata = [p \in Positions |-> NoData]
  /\ peer_queue_count = [a \in Askers |-> 0]
  /\ block_queue = [t \in EmergeThreads |-> <<>>]
  /\ queue_event = {}
  /\ unsignalled = {}
  /\ et = [t \in EmergeThreads |-> [Idle EXCEPT !.pc = "start"]]
  /\ chunks_in_progress = {}
  /\ loaded = {} /\ generated = {} /\ edited = {}
  /\ emergeStop = {}
  /\ asyncFatal = FALSE
  /\ asked = 0
  /\ awaited = {}
  /\ called = [r \in Requests |-> 0]
  /\ excuse = {}
  /\ everEdited = {} /\ raced = {}

-----------------------------------------------------------------------------
(* Asking for a block.                                                     *)

(* The limits of pushBlockEmergeData.                                      *)
Admitted(a, gen, force) ==
  \/ force
  \/ /\ Cardinality(blocks_enqueued) < m_qlimit_total
     /\ IF a # PEER_ID_INEXISTENT
        THEN peer_queue_count[a] < IF gen THEN m_qlimit_generate ELSE m_qlimit_diskonly
        ELSE peer_queue_count[a] * 2 < m_qlimit_total

(* A variant that forgets the callbacks of a request for an entry that is  *)
(* there.                                                                  *)
pushBlockEmergeData_Forgets(p, a, gen, callbacks) ==
  IF p \in blocks_enqueued
  THEN /\ bedata' = [bedata EXCEPT ![p].gen = @ \/ gen]
       /\ UNCHANGED <<blocks_enqueued, peer_queue_count>>
  ELSE /\ bedata' = [bedata EXCEPT ![p] = [gen |-> gen, peer |-> a, callbacks |-> callbacks]]
       /\ blocks_enqueued' = blocks_enqueued \union {p}
       /\ peer_queue_count' = [peer_queue_count EXCEPT ![a] = (@ + 1) % COUNT_SIZE]

(* A new entry, or the request added to the one there is.                  *)
pushBlockEmergeData(p, a, gen, callbacks) ==
  IF p \in blocks_enqueued
  THEN /\ bedata' = [bedata EXCEPT ![p].gen = @ \/ gen,
                                   ![p].callbacks = @ \o callbacks]
       /\ UNCHANGED <<blocks_enqueued, peer_queue_count>>
  ELSE /\ bedata' = [bedata EXCEPT ![p] = [gen |-> gen, peer |-> a, callbacks |-> callbacks]]
       /\ blocks_enqueued' = blocks_enqueued \union {p}
       /\ peer_queue_count' = [peer_queue_count EXCEPT ![a] = (@ + 1) % COUNT_SIZE]

(* The first of the threads with the shortest queue.                       *)
getOptimalThread ==
  CHOOSE t \in EmergeThreads :
    \A u \in EmergeThreads : \/ Len(block_queue[t]) < Len(block_queue[u])
                             \/ Len(block_queue[t]) = Len(block_queue[u]) /\ t <= u

(* The thread is signalled only after the mutex is released.               *)
enqueueBlockEmergeEx(p, a, gen, force, callbacks) ==
  /\ asked < world.requests
  /\ Admitted(a, gen, force)
  /\ pushBlockEmergeData(p, a, gen, callbacks)
  /\ IF p \in blocks_enqueued
     THEN UNCHANGED <<block_queue, unsignalled>>
     ELSE LET t == getOptimalThread
          IN /\ block_queue' = [block_queue EXCEPT ![t] = Append(@, p)]
             /\ unsignalled' = unsignalled \union {t}
  /\ asked' = asked + 1
  /\ awaited' = awaited \union ToSet(callbacks)
  /\ UNCHANGED <<world, queue_event, et, chunks_in_progress, mapVars, diskVars,
                 emergeStop, asyncFatal, callVars, editVars>>

(* For a client that may see the block, for an active block that is not in *)
(* memory, or for a mod's emerge_area with its callback.                   *)
AskForClient(p, a, gen) == enqueueBlockEmergeEx(p, a, gen, FALSE, <<>>)

getBlockOrEmerge(p) ==
  /\ p \notin loaded
  /\ enqueueBlockEmergeEx(p, PEER_ID_INEXISTENT, FALSE, FALSE, <<>>)

emerge_area(p) ==
  enqueueBlockEmergeEx(p, PEER_ID_INEXISTENT, TRUE, TRUE, <<asked + 1>>)

Signal(t) ==
  /\ t \in unsignalled
  /\ unsignalled' = unsignalled \ {t}
  /\ queue_event' = queue_event \union {t}
  /\ UNCHANGED <<world, queueVars, et, chunks_in_progress, mapVars, diskVars,
                 emergeStop, asyncFatal, askVars, callVars, editVars>>

-----------------------------------------------------------------------------
(* A thread.                                                               *)

At(t, place) == et[t].pc = place
Goto(t, place) == et' = [et EXCEPT ![t].pc = place]

ThreadOnly == UNCHANGED <<world, unsignalled, askVars, stored, storedGenerated, storedEdited,
                          damaged, emergeStop, edited, everEdited, raced>>
NoMap  == UNCHANGED <<loaded, generated, edited, chunks_in_progress>>
NoWork == UNCHANGED <<queueVars, queue_event>>

(* initScripting: a mod that fails to load ends the thread before it began.*)
StartScripting(t) ==
  /\ At(t, "start")
  /\ \/ Goto(t, "check") /\ UNCHANGED asyncFatal
     \/ Goto(t, "ended") /\ asyncFatal' = TRUE
  /\ ThreadOnly /\ NoMap /\ NoWork /\ UNCHANGED callVars

(* The head of the loop.                                                   *)
CheckStop(t) ==
  /\ At(t, "check")
  /\ Goto(t, IF t \in emergeStop THEN "ended" ELSE "pop")
  /\ ThreadOnly /\ NoMap /\ NoWork /\ UNCHANGED <<callVars, asyncFatal>>

popBlockEmergeData(p) ==
  /\ blocks_enqueued' = blocks_enqueued \ {p}
  /\ bedata' = [bedata EXCEPT ![p] = NoData]
  /\ peer_queue_count' =
       [peer_queue_count EXCEPT ![bedata[p].peer] = (@ + COUNT_SIZE - 1) % COUNT_SIZE]

(* A position outside the map is dropped with its callbacks.               *)
popBlockEmerge(t) ==
  /\ At(t, "pop")
  /\ IF block_queue[t] = <<>>
     THEN Goto(t, "wait") /\ UNCHANGED <<queueVars, excuse>>
     ELSE LET p == Head(block_queue[t])
              d == bedata[p]
          IN /\ block_queue' = [block_queue EXCEPT ![t] = Tail(@)]
             /\ popBlockEmergeData(p)
             /\ IF world.reach[p] = "outside"
                THEN Goto(t, "check") /\ excuse' = excuse \union ToSet(d.callbacks)
                ELSE /\ et' = [et EXCEPT ![t] = [Idle EXCEPT !.pc = "fetch", !.pos = p,
                                                  !.gen = d.gen, !.callbacks = d.callbacks]]
                     /\ UNCHANGED excuse
  /\ ThreadOnly /\ NoMap /\ UNCHANGED <<queue_event, called, asyncFatal>>

Wait(t) ==
  /\ At(t, "wait") /\ t \in queue_event
  /\ queue_event' = queue_event \ {t}
  /\ Goto(t, "check")
  /\ ThreadOnly /\ NoMap /\ UNCHANGED <<queueVars, callVars, asyncFatal>>

(* Damaged data ends the thread (the handlers around the loop).            *)
LoadFails(t) ==
  /\ et' = [et EXCEPT ![t] = [Idle EXCEPT !.pc = "ended"]]
  /\ asyncFatal' = TRUE
  /\ excuse' = excuse \union ToSet(et[t].callbacks)
  /\ UNCHANGED <<loaded, generated, edited>>

LoadAll(S) ==
  /\ loaded' = loaded \union S
  /\ generated' = generated \union (storedGenerated \cap (S \ loaded))
  /\ edited' = edited \union (storedEdited \cap (S \ loaded))

(* initBlockMake, as far as it is under m_env_mutex: the chunk is marked,  *)
(* and left marked beyond the limits of the map generator; all its blocks  *)
(* and their neighbours are loaded or made, and copied.                    *)
initBlockMake(t, p) ==
  LET c == Chunk[p]
      area == FullArea[c]
  IN /\ chunks_in_progress' = chunks_in_progress \union {c}
     /\ IF c \in chunks_in_progress \/ \E q \in area : world.reach[q] # "mapgen"
        THEN /\ Goto(t, "report")
             /\ LoadAll({p} \cap stored)
             /\ UNCHANGED <<asyncFatal, excuse>>
        ELSE IF (area \ loaded) \cap damaged # {}
        THEN LoadFails(t)
        ELSE /\ LoadAll(area)
             /\ et' = [et EXCEPT ![t].pc = "make",
                                 ![t].copy = edited' \cap area,
                                 ![t].known = generated' \cap area]
             /\ UNCHANGED <<asyncFatal, excuse>>

getBlockOrStartGen(t) ==
  LET p == et[t].pos IN
  /\ At(t, "fetch")
  /\ IF p \in generated \/ (p \notin loaded /\ p \in storedGenerated)
     THEN /\ Goto(t, "report")
          /\ LoadAll({p})
          /\ UNCHANGED <<chunks_in_progress, asyncFatal, excuse>>
     ELSE IF p \notin loaded /\ p \in damaged
     THEN LoadFails(t) /\ UNCHANGED chunks_in_progress
     ELSE IF et[t].gen
     THEN initBlockMake(t, p)
     ELSE /\ Goto(t, "report")
          /\ LoadAll({p} \cap stored)
          /\ UNCHANGED <<chunks_in_progress, asyncFatal, excuse>>
  /\ NoWork /\ UNCHANGED <<world, unsignalled, askVars, diskVars, emergeStop, called, editVars>>

(* makeChunk and the mod's on_generated in the thread, which may fail: the *)
(* chunk then stays in progress.                                           *)
makeChunk(t) ==
  /\ At(t, "make")
  /\ \/ Goto(t, "finish") /\ UNCHANGED asyncFatal
     \/ Goto(t, "report") /\ asyncFatal' = TRUE
  /\ ThreadOnly /\ NoMap /\ NoWork /\ UNCHANGED callVars

(* A variant: blocks that are gone count as generated.                     *)
finishBlockMake_All(t, c) ==
  /\ edited' = (edited \ FullArea[c]) \union (et[t].copy \cap loaded)
  /\ generated' = generated \union Central(c)
  /\ chunks_in_progress' = chunks_in_progress \ {c}

(* finishBlockMake: the copy is written over what is in memory, except for *)
(* nodes that were unknown when it was made and stayed so.                 *)
finishBlockMake(t, c) ==
  /\ \E kept \in SUBSET ((FullArea[c] \ et[t].known) \cap edited) :
       edited' = (edited \ FullArea[c]) \union (et[t].copy \cap loaded) \union kept
  /\ generated' = generated \union (Central(c) \cap loaded)
  /\ chunks_in_progress' = chunks_in_progress \ {c}

(* Then mods are told, in the server's environment, if the block is there; *)
(* their error is fatal to the server.                                     *)
finishGen(t) ==
  LET p == et[t].pos IN
  /\ At(t, "finish")
  /\ finishBlockMake(t, Chunk[p])
  /\ et' = [et EXCEPT ![t].pc = "report", ![t].copy = {}, ![t].known = {}]
  /\ asyncFatal' \in {asyncFatal, asyncFatal \/ p \in loaded}
  /\ UNCHANGED loaded
  /\ NoWork /\ UNCHANGED <<world, unsignalled, askVars, diskVars, emergeStop, callVars, editVars>>

(* Callbacks one after the other; LuaEmergeAreaCallback takes m_env_mutex  *)
(* for each.                                                               *)
runCompletionCallbacks(t) ==
  /\ At(t, "report")
  /\ IF et[t].callbacks = <<>>
     THEN /\ et' = [et EXCEPT ![t] = [Idle EXCEPT !.pc = "check"]]
          /\ UNCHANGED called
     ELSE /\ called' = [called EXCEPT ![Head(et[t].callbacks)] = @ + 1]
          /\ et' = [et EXCEPT ![t].callbacks = Tail(@)]
  /\ ThreadOnly /\ NoMap /\ NoWork /\ UNCHANGED <<excuse, asyncFatal>>

ThreadStep(t) == \/ StartScripting(t) \/ CheckStop(t) \/ popBlockEmerge(t) \/ Wait(t)
                 \/ getBlockOrStartGen(t) \/ makeChunk(t) \/ finishGen(t)
                 \/ runCompletionCallbacks(t)

-----------------------------------------------------------------------------
(* The server thread.                                                      *)

ServerOnly == UNCHANGED <<world, queueVars, unsignalled, et, chunks_in_progress, asyncFatal,
                          askVars, callVars>>

(* A node is changed.                                                      *)
InTheMaking == UNION {FullArea[Chunk[et[t].pos]] :
                        t \in {u \in EmergeThreads : At(u, "make") \/ At(u, "finish")}}

EditBlock(p) ==
  /\ p \in (Editable \cap loaded) \ everEdited
  /\ edited' = edited \union {p}
  /\ everEdited' = everEdited \union {p}
  /\ raced' = raced \union ({p} \cap InTheMaking)
  /\ ServerOnly /\ UNCHANGED <<queue_event, emergeStop, loaded, generated, diskVars>>

(* timerUpdate: a block nobody used for long is saved and forgotten.       *)
Moved(there, here, p) == (there \ {p}) \union ({p} \cap here)

UnloadBlock(p) ==
  /\ p \in loaded \cap world.movable
  /\ stored' = stored \union {p}
  /\ storedGenerated' = Moved(storedGenerated, generated, p)
  /\ storedEdited' = Moved(storedEdited, edited, p)
  /\ damaged' = damaged \ {p}
  /\ loaded' = loaded \ {p} /\ generated' = generated \ {p} /\ edited' = edited \ {p}
  /\ ServerOnly /\ UNCHANGED <<queue_event, emergeStop, editVars>>

(* deleteBlock, for a mod's delete_area.                                   *)
DeleteBlock(p) ==
  /\ p \in (loaded \union stored) \cap world.movable
  /\ loaded' = loaded \ {p} /\ generated' = generated \ {p} /\ edited' = edited \ {p}
  /\ stored' = stored \ {p} /\ storedGenerated' = storedGenerated \ {p}
  /\ storedEdited' = storedEdited \ {p} /\ damaged' = damaged \ {p}
  /\ everEdited' = everEdited \ {p} /\ raced' = raced \ {p}
  /\ ServerOnly /\ UNCHANGED <<queue_event, emergeStop>>

(* stopThreads: each thread is told and woken, in order.                   *)
StopThread(t) ==
  /\ t \notin emergeStop /\ \A u \in EmergeThreads : u < t => u \in emergeStop
  /\ emergeStop' = emergeStop \union {t}
  /\ queue_event' = queue_event \union {t}
  /\ ServerOnly /\ UNCHANGED <<mapVars, diskVars, editVars>>

EmergeNext ==
  \/ \E p \in Positions :
       \/ \E a \in EmergePeers, gen \in BOOLEAN : AskForClient(p, a, gen)
       \/ getBlockOrEmerge(p) \/ emerge_area(p)
       \/ EditBlock(p) \/ UnloadBlock(p) \/ DeleteBlock(p)
  \/ \E t \in EmergeThreads : Signal(t) \/ ThreadStep(t) \/ StopThread(t)

EmergeSpec == EmergeInit /\ [][EmergeNext]_emergeVars

-----------------------------------------------------------------------------
(* Properties.                                                             *)

EmergeTypeOK ==
  /\ world \in Worlds
  /\ blocks_enqueued \subseteq Positions
  /\ bedata \in [Positions -> [gen : BOOLEAN, peer : Askers, callbacks : Seq(Requests)]]
  /\ peer_queue_count \in [Askers -> 0 .. COUNT_SIZE - 1]
  /\ block_queue \in [EmergeThreads -> Seq(Positions)]
  /\ queue_event \union unsignalled \union emergeStop \subseteq EmergeThreads
  /\ et \in [EmergeThreads ->
       [pc : {"start", "check", "pop", "wait", "fetch", "make", "finish", "report", "ended"},
        pos : Positions \union {NoPosition}, gen : BOOLEAN, callbacks : Seq(Requests),
        copy : SUBSET Positions, known : SUBSET Positions]]
  /\ chunks_in_progress \subseteq Chunks
  /\ generated \union edited \subseteq loaded /\ loaded \subseteq Positions
  /\ storedGenerated \union storedEdited \union damaged \subseteq stored
  /\ stored \subseteq Positions
  /\ asyncFatal \in BOOLEAN
  /\ asked \in 0 .. MaxRequests /\ awaited \subseteq 1 .. asked
  /\ called \in [Requests -> Nat] /\ excuse \subseteq awaited
  /\ everEdited \subseteq Editable /\ raced \subseteq everEdited

(* A position that is waited for is in one thread's queue, once, and       *)
(* nothing else is; each peer is charged for its own entries (modulo the   *)
(* width of the counter).                                                  *)
QueuesAgree ==
  /\ \A p \in Positions :
       Cardinality({e \in EmergeThreads \X (1 .. MaxRequests) :
                      e[2] <= Len(block_queue[e[1]]) /\ block_queue[e[1]][e[2]] = p})
         = IF p \in blocks_enqueued THEN 1 ELSE 0
  /\ \A a \in Askers :
       peer_queue_count[a] = Cardinality({p \in blocks_enqueued : bedata[p].peer = a})
                               % COUNT_SIZE

(* A thread that sleeps over a queue with something in it is about to be   *)
(* woken.                                                                  *)
NoLostWakeUp ==
  \A t \in EmergeThreads :
    At(t, "wait") /\ (block_queue[t] # <<>> \/ t \in emergeStop)
      => t \in queue_event \union unsignalled

(* No two threads generate one chunk, and a chunk that may not be started  *)
(* is being generated, or lies beyond the limits, or failed fatally.       *)
MakingChunk(t, c) == (At(t, "make") \/ At(t, "finish")) /\ Chunk[et[t].pos] = c

OneGeneratorPerChunk ==
  \A c \in Chunks :
    /\ \A t, u \in EmergeThreads : MakingChunk(t, c) /\ MakingChunk(u, c) => t = u
    /\ (\E t \in EmergeThreads : MakingChunk(t, c)) => c \in chunks_in_progress
    /\ c \in chunks_in_progress =>
         \/ \E t \in EmergeThreads : MakingChunk(t, c)
         \/ \E q \in FullArea[c] : world.reach[q] # "mapgen"
         \/ asyncFatal

EmergeIsSound == QueuesAgree /\ NoLostWakeUp /\ OneGeneratorPerChunk

(* A change of a block is kept, in memory or on disk, unless it was made   *)
(* while the block or a neighbour was being generated: then the copy made  *)
(* before is written over it (initBlockMake, finishBlockMake, blitBackAll).*)
EditsSurvive ==
  \A p \in everEdited \ raced : IF p \in loaded THEN p \in edited ELSE p \in storedEdited

(* A request with a callback is called back once, or is given up for a     *)
(* reason: a position outside the map, or damaged data.                    *)
Held == (UNION {ToSet(bedata[p].callbacks) : p \in blocks_enqueued})
          \union (UNION {ToSet(et[t].callbacks) : t \in EmergeThreads})

RequestStatus ==
  [r \in Requests |-> IF r \notin awaited THEN "new"
                      ELSE IF r \in Held THEN "pending"
                      ELSE IF called[r] = 1 THEN "answered"
                      ELSE IF called[r] = 0 THEN "dropped" ELSE "answered twice"]

EmergeJobs == INSTANCE Jobs WITH Jobs <- Requests, status <- RequestStatus, excused <- excuse

EachCallbackOnce == EmergeJobs!Spec

EmergeIsCorrect == []EmergeIsSound /\ []EditsSurvive /\ EachCallbackOnce

(* What is to come to an end: a callback, while the server runs; all the   *)
(* threads, when they are asked to stop.                                   *)
EmergeIsBusy ==
  emergeStop = {} /\ ~asyncFatal /\ \E r \in awaited \ excuse : called[r] = 0
EmergeIsEnding == emergeStop # {} /\ \E t \in EmergeThreads : ~At(t, "ended")
=============================================================================

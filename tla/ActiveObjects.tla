---------------------------- MODULE ActiveObjects ----------------------------
(***************************************************************************)
(* The active objects of ServerEnvironment (serverenvironment.cpp): an     *)
(* object near a player is an instance with an id, and has a copy in the   *)
(* list m_active of a block; one that is far from the players is only in   *)
(* the list m_stored of the block it is in.  Blocks are loaded, saved and  *)
(* unloaded meanwhile, and both lists are written to the same place.       *)
(* Everything here runs under m_env_mutex: what a loop over the objects    *)
(* does is a step for each, and nothing else happens until it ends.        *)
(* Every object is one that isStaticAllowed and shouldUnload: no players.  *)
(***************************************************************************)
EXTENDS Naturals, FiniteSets

CONSTANTS
  Objects, NoObject,
  ObjectIds, NoId,
  ObjectBlocks, NoBlock,
  max_objects_per_block,
  MaxTime,               (* bound: m_game_time                             *)
  Scenes,                (* bounds: sets of what may happen together       *)
  BLOCK_TIMESTAMP_UNDEFINED

ASSUME ActiveObjectsAssumption ==
  /\ NoObject \notin Objects /\ NoBlock \notin ObjectBlocks /\ NoId \notin ObjectIds
  /\ IsFiniteSet(ObjectIds) /\ max_objects_per_block \in Nat
  /\ MaxTime \in Nat
  /\ BLOCK_TIMESTAMP_UNDEFINED \notin 0 .. MaxTime
  /\ Scenes \subseteq SUBSET {"clients", "save", "generate", "delete", "clear", "restart"}

VARIABLES
  scene,            (* what may happen: does not change                    *)
  sao,              (* m_active_objects, by id; static is m_static_block,  *)
                    (* NoBlock when m_static_exists is false               *)
  mapblock,         (* the blocks in memory and their m_static_objects     *)
  database,         (* the blocks on disk                                  *)
  ActiveBlocks,     (* m_list                                              *)
  recent,           (* blocks whose usage timer is below the timeout       *)
  m_game_time, m_last_clear_objects_time,
  loop,             (* the loop that runs: over ids and blocks             *)
  fate              (* history: what became of each object                 *)

clock  == <<scene, m_game_time, m_last_clear_objects_time>>
aoVars == <<clock, sao, mapblock, database, ActiveBlocks, recent, loop, fate>>

NoSao    == [who |-> NoObject, at |-> NoBlock, known |-> FALSE, removal |-> FALSE,
             deactivation |-> FALSE, static |-> NoBlock]
Nothing  == [o \in Objects |-> 0]
NoneIn   == [i \in ObjectIds |-> NoObject]
Unloaded == [inMemory |-> FALSE, active |-> NoneIn, stored |-> Nothing,
             modified |-> FALSE, stamp |-> BLOCK_TIMESTAMP_UNDEFINED]
Missing  == [exists |-> FALSE, objects |-> Nothing, stamp |-> BLOCK_TIMESTAMP_UNDEFINED]
NoLoop   == [op |-> "none", ids |-> {}, blocks |-> {}, force |-> FALSE, removed |-> {},
             current |-> NoBlock]

Instances == {i \in ObjectIds : sao[i].who # NoObject}
Gone(i)   == sao[i].removal \/ sao[i].deactivation          (* isGone      *)
Quiet     == loop = NoLoop

(* Disk: a new block, and one that was generated and active before.        *)
ActiveObjectsInit ==
  /\ scene \in Scenes
  /\ sao = [i \in ObjectIds |-> NoSao]
  /\ mapblock = [b \in ObjectBlocks |-> Unloaded]
  /\ \E old \in SUBSET ObjectBlocks :
       database = [b \in ObjectBlocks |->
                     IF b \in old THEN [Missing EXCEPT !.exists = TRUE, !.stamp = 0] ELSE Missing]
  /\ ActiveBlocks = {}
  /\ recent = {}
  /\ m_game_time = 0
  /\ m_last_clear_objects_time = 0
  /\ loop = NoLoop
  /\ fate = [o \in Objects |-> "unborn"]

-----------------------------------------------------------------------------
(* The lists of the blocks.  Each operator takes the blocks in memory and  *)
(* returns what they become.                                               *)

CanLoad(blocks, b) == blocks[b].inMemory \/ database[b].exists
NumStored(objects)  == Cardinality(UNION {{<<o, n>> : n \in 1 .. objects[o]} : o \in Objects})

(* emergeBlock: from memory, from disk, or a new one.                      *)
FromDisk(b) == [inMemory |-> TRUE, active |-> NoneIn, stored |-> database[b].objects,
                modified |-> ~database[b].exists, stamp |-> database[b].stamp]
Emerged(blocks, b) ==
  IF blocks[b].inMemory THEN blocks ELSE [blocks EXCEPT ![b] = FromDisk(b)]

(* What is in memory after and was not before has a new usage timer.       *)
Loaded(blocks) == {b \in ObjectBlocks : blocks[b].inMemory /\ ~mapblock[b].inMemory}

(* A variant that leaves the entry.                                        *)
StaticDeleted_Left(blocks, s, i, write) ==
  IF s.static = NoBlock \/ ~CanLoad(blocks, s.static) THEN blocks
  ELSE [Emerged(blocks, s.static) EXCEPT ![s.static].modified = @ \/ write]

(* deleteStaticFromBlock of an instance s with id i.                       *)
StaticDeleted(blocks, s, i, write) ==
  IF s.static = NoBlock \/ ~CanLoad(blocks, s.static) THEN blocks
  ELSE [Emerged(blocks, s.static) EXCEPT
          ![s.static].active[i] = NoObject, ![s.static].modified = @ \/ write]
StaticLeft(blocks, s) ==
  IF s.static # NoBlock /\ ~CanLoad(blocks, s.static) THEN s.static ELSE NoBlock

(* saveStaticToBlock: fails when the block is full; a duplicate id is a    *)
(* FATAL_ERROR.                                                            *)
Full(blocks, b) == NumStored(Emerged(blocks, b)[b].stored) >= max_objects_per_block
IdIsActive(blocks, b, i) == i # NoId /\ Emerged(blocks, b)[b].active[i] # NoObject
StaticSaved(blocks, b, i, o, write) ==
  LET em == [Emerged(blocks, b) EXCEPT ![b].modified = @ \/ write]
  IN  IF i = NoId THEN [em EXCEPT ![b].stored[o] = @ + 1] ELSE [em EXCEPT ![b].active[i] = o]

Fatal == loop' = [NoLoop EXCEPT !.op = "fatal"]
Done(i) == loop' = [loop EXCEPT !.ids = @ \ {i}]
Keep(blocks) == mapblock' = blocks /\ recent' = recent \union Loaded(blocks)

(* Written to disk: m_stored and m_active alike.                           *)
Serialized(m) == [exists  |-> TRUE,
                  objects |-> [o \in Objects |-> m.stored[o]
                                 + Cardinality({i \in ObjectIds : m.active[i] = o})],
                  stamp   |-> m.stamp]

-----------------------------------------------------------------------------
(* What happens to objects from outside: mods, physics, clients.           *)

(* registerObject and addActiveObjectRaw: an id, an entry in m_active.     *)
Registered(o, b) == [NoSao EXCEPT !.who = o, !.at = b, !.static = b]

addActiveObject(o, b) ==
  /\ Quiet /\ fate[o] = "unborn"
  /\ \E i \in ObjectIds \ Instances :
       /\ sao' = [sao EXCEPT ![i] = Registered(o, b)]
       /\ Keep([Emerged(mapblock, b) EXCEPT ![b].active[i] = o, ![b].modified = TRUE])
  /\ fate' = [fate EXCEPT ![o] = "living"]
  /\ UNCHANGED <<database, ActiveBlocks, clock, loop>>

Outside == /\ Quiet
           /\ UNCHANGED <<mapblock, database, ActiveBlocks, recent, clock, loop>>

MoveObject(i, b) ==
  /\ Outside /\ i \in Instances /\ ~Gone(i) /\ sao[i].at # b
  /\ sao' = [sao EXCEPT ![i].at = b]
  /\ UNCHANGED fate

(* A client is told of the object, or that it is gone (SendActiveObject-   *)
(* RemoveAdd): m_known_by_count.                                           *)
KnownByClients(i) ==
  /\ "clients" \in scene /\ Outside /\ i \in Instances
  /\ sao[i].known \/ ~Gone(i)
  /\ sao' = [sao EXCEPT ![i].known = ~@]
  /\ UNCHANGED fate

(* ObjectRef:remove.                                                       *)
markForRemoval(i) ==
  /\ Outside /\ i \in Instances /\ ~Gone(i)
  /\ sao' = [sao EXCEPT ![i].removal = TRUE]
  /\ fate' = [fate EXCEPT ![sao[i].who] = IF @ = "living" THEN "removed" ELSE @]

-----------------------------------------------------------------------------
(* The active blocks, every active_block_mgmt_interval seconds, in which   *)
(* m_game_time goes on.                                                    *)

ManageActiveBlocks(newlist) ==
  /\ Quiet /\ m_game_time < MaxTime
  /\ m_game_time' = m_game_time + 1
  /\ ActiveBlocks' = newlist
  /\ recent' = (ActiveBlocks \union newlist) \intersect {b \in ObjectBlocks : mapblock[b].inMemory}
  /\ loop' = [NoLoop EXCEPT !.op = "deactivate", !.ids = Instances,
                            !.blocks = newlist \ ActiveBlocks,
                            !.removed = ActiveBlocks \ newlist]
  /\ UNCHANGED <<sao, mapblock, database, m_last_clear_objects_time, scene, fate>>

Deactivating(i) == loop.op = "deactivate" /\ i \in loop.ids
IsActive(b)     == b \in ActiveBlocks
LeftBehind(i)   == /\ sao[i].static # NoBlock /\ ~IsActive(sao[i].static)
                   /\ IsActive(sao[i].at)

(* Not for deactivateFarObjects, or still in an active block.              *)
StaysActive(i) ==
  /\ Deactivating(i) /\ ~loop.force
  /\ Gone(i) \/ (~LeftBehind(i) /\ IsActive(sao[i].at))
  /\ Done(i)
  /\ UNCHANGED <<sao, mapblock, database, ActiveBlocks, recent, clock, fate>>

(* The static data is moved to the active block the object is in; what     *)
(* saveStaticToBlock returns is not looked at.                             *)
ResaveStatic(i) ==
  /\ Deactivating(i) /\ ~loop.force /\ ~Gone(i) /\ LeftBehind(i)
  /\ LET s == sao[i]
         blocks == StaticDeleted(mapblock, s, i, TRUE)
     IN  IF Full(blocks, s.at)
         THEN /\ Keep(Emerged(blocks, s.at))
              /\ sao' = [sao EXCEPT ![i].static = StaticLeft(mapblock, s)]
              /\ Done(i)
         ELSE /\ Keep(StaticSaved(blocks, s.at, i, s.who, TRUE))
              /\ sao' = [sao EXCEPT ![i].static = s.at]
              /\ IF IdIsActive(blocks, s.at, i) THEN Fatal ELSE Done(i)
  /\ UNCHANGED <<database, ActiveBlocks, clock, fate>>

(* The object becomes static, and is deleted, or later if a client knows   *)
(* it.  When it has not changed its block is not marked as modified.       *)
Deactivate(i) ==
  /\ Deactivating(i)
  /\ loop.force \/ (~Gone(i) /\ ~IsActive(sao[i].at))
  /\ LET s == sao[i]
         pending == s.known /\ ~loop.force
         id == IF pending THEN i ELSE NoId
         old == IF s.static # NoBlock /\ CanLoad(mapblock, s.static)
                THEN Emerged(mapblock, s.static)[s.static].active[i] ELSE NoObject
     IN  \E changed \in BOOLEAN :
           LET write  == changed \/ s.static # s.at
               blocks == StaticDeleted(mapblock, s, i, write)
           IN  /\ old = NoObject /\ s.static # NoBlock => changed
               /\ IF Full(blocks, s.at)
                  THEN /\ Keep(Emerged(blocks, s.at))
                       /\ sao' = [sao EXCEPT ![i] = NoSao]
                       /\ fate' = [fate EXCEPT ![s.who] = IF @ = "living" THEN "lost"
                                               ELSE IF @ = "removed" /\ ~write THEN "undead"
                                               ELSE @]
                       /\ Done(i)
                  ELSE /\ Keep(StaticSaved(blocks, s.at, id, s.who, write))
                       /\ sao' = [sao EXCEPT ![i] =
                                    IF pending
                                    THEN [@ EXCEPT !.static = s.at, !.deactivation = TRUE]
                                    ELSE NoSao]
                       /\ fate' = [fate EXCEPT ![s.who] = IF @ = "removed" THEN "undead"
                                               ELSE IF s.deactivation /\ old = NoObject
                                               THEN "doubled" ELSE @]
                       /\ IF IdIsActive(blocks, s.at, id) THEN Fatal ELSE Done(i)
  /\ UNCHANGED <<database, ActiveBlocks, clock>>

(* Then the blocks that left the list get a timestamp, and those that are  *)
(* new to it are activated, or asked of the emerge threads and taken off   *)
(* the list.                                                               *)
EndDeactivation ==
  /\ loop.op = "deactivate" /\ loop.ids = {} /\ ~loop.force
  /\ mapblock' = [b \in ObjectBlocks |->
                    IF b \in loop.removed /\ mapblock[b].inMemory
                    THEN [mapblock[b] EXCEPT !.stamp = m_game_time, !.modified = TRUE]
                    ELSE mapblock[b]]
  /\ LET there == {b \in loop.blocks : mapblock[b].inMemory}
     IN  /\ ActiveBlocks' = ActiveBlocks \ (loop.blocks \ there)
         /\ loop' = [NoLoop EXCEPT !.op = "activate", !.blocks = there]
  /\ UNCHANGED <<sao, database, recent, clock, fate>>

-----------------------------------------------------------------------------
(* activateBlock, here and at the end of finishGen.                        *)

Stored_All(b) == Objects   \* a variant: whatever the block holds

Stored(b) == {o \in Objects : mapblock[b].stored[o] > 0}

Stale_NeverStamped(m) == m.stamp = BLOCK_TIMESTAMP_UNDEFINED   \* a variant

Stale(m) == m.stamp = BLOCK_TIMESTAMP_UNDEFINED \/ m.stamp < m_last_clear_objects_time

(* The stored objects are cleared when the block is older than the last    *)
(* clearObjects, or has no timestamp; and when there are too many of them. *)
activateBlock(b) ==
  /\ loop.op = "activate" /\ loop.current = NoBlock /\ b \in loop.blocks
  /\ LET m     == mapblock[b]
         stale == Stale(m)
         many  == ~stale /\ NumStored(m.stored) > max_objects_per_block
     IN  /\ mapblock' = [mapblock EXCEPT
                           ![b].stored = IF stale \/ many THEN Nothing ELSE @,
                           ![b].stamp = m_game_time,
                           ![b].modified = @ \/ many]
         /\ fate' = [o \in Objects |->
                       IF (stale \/ many) /\ o \in Stored(b) /\ fate[o] = "living"
                       THEN IF stale THEN "thrown" ELSE "lost" ELSE fate[o]]
         /\ loop' = [loop EXCEPT !.current = b, !.blocks = @ \ {b}]
  /\ recent' = recent \union {b}
  /\ UNCHANGED <<sao, database, ActiveBlocks, clock>>

(* activateObjects: each stored object is registered.  One for which there *)
(* is no id left is deleted, and m_stored is cleared all the same.  The    *)
(* block is not marked as modified.                                        *)
activateObject(b, o) ==
  /\ loop.current = b /\ o \in Stored(b)
  /\ LET blocks == [mapblock EXCEPT ![b].stored[o] = @ - 1]
     IN  IF Instances = ObjectIds
         THEN /\ mapblock' = blocks
              /\ fate' = [fate EXCEPT ![o] = IF @ = "living" THEN "lost" ELSE @]
              /\ UNCHANGED sao
         ELSE \E i \in ObjectIds \ Instances :
              /\ sao' = [sao EXCEPT ![i] = Registered(o, b)]
              /\ mapblock' = [blocks EXCEPT ![b].active[i] = o]
              /\ UNCHANGED fate
  /\ UNCHANGED <<database, ActiveBlocks, recent, clock, loop>>

BlockActivated(b) ==
  /\ loop.current = b /\ Stored(b) = {}
  /\ loop' = [loop EXCEPT !.current = NoBlock]
  /\ UNCHANGED <<sao, mapblock, database, ActiveBlocks, recent, clock, fate>>

EndActivation ==
  /\ loop.op = "activate" /\ loop.blocks = {} /\ loop.current = NoBlock
  /\ loop' = NoLoop
  /\ UNCHANGED <<sao, mapblock, database, ActiveBlocks, recent, clock, fate>>

(* EmergeThread: a block is loaded, or made and activated.                 *)
loadFromDisk(b) ==
  /\ Quiet /\ ~mapblock[b].inMemory /\ database[b].exists
  /\ Keep(Emerged(mapblock, b))
  /\ UNCHANGED <<sao, database, ActiveBlocks, clock, loop, fate>>

finishGenOf(b) ==
  /\ "generate" \in scene /\ Quiet /\ Emerged(mapblock, b)[b].stamp = BLOCK_TIMESTAMP_UNDEFINED
  /\ Keep([Emerged(mapblock, b) EXCEPT ![b].modified = TRUE])
  /\ loop' = [NoLoop EXCEPT !.op = "activate", !.blocks = {b}]
  /\ UNCHANGED <<sao, database, ActiveBlocks, clock, fate>>

-----------------------------------------------------------------------------
(* removeRemovedObjects, every half second.                                *)

BeginRemoval ==
  /\ Quiet /\ \E i \in Instances : Gone(i)
  /\ loop' = [NoLoop EXCEPT !.op = "remove", !.ids = {i \in Instances : Gone(i)}]
  /\ UNCHANGED <<sao, mapblock, database, ActiveBlocks, recent, clock, fate>>

(* Its static data is deleted if the object was removed, else what is in   *)
(* m_active goes to m_stored; the instance goes when no client knows it.   *)
removeRemovedObject(i) ==
  /\ loop.op = "remove" /\ i \in loop.ids
  /\ Done(i)
  /\ LET s       == sao[i]
         deleted == StaticDeleted(mapblock, s, i, TRUE)
         found   == /\ ~s.removal /\ s.static # NoBlock
                    /\ CanLoad(mapblock, s.static)
         loaded  == Emerged(mapblock, s.static)
     IN  /\ Keep(IF s.removal THEN deleted
                 ELSE IF s.known \/ ~found THEN mapblock
                 ELSE IF loaded[s.static].active[i] = NoObject THEN loaded
                 ELSE [loaded EXCEPT
                         ![s.static].active[i] = NoObject,
                         ![s.static].stored[loaded[s.static].active[i]] = @ + 1,
                         ![s.static].modified = TRUE])
         /\ sao' = [sao EXCEPT ![i] =
                      IF ~s.known THEN NoSao
                      ELSE IF s.removal THEN [s EXCEPT !.static = StaticLeft(mapblock, s)]
                      ELSE s]
  /\ UNCHANGED <<database, ActiveBlocks, clock, fate>>

EndRemoval ==
  /\ loop.op = "remove" /\ loop.ids = {}
  /\ loop' = NoLoop
  /\ UNCHANGED <<sao, mapblock, database, ActiveBlocks, recent, clock, fate>>

-----------------------------------------------------------------------------
(* The map (map.cpp): saving, unloading, deleting; a stop and a restart.   *)

Untouched == UNCHANGED <<sao, ActiveBlocks, clock>>

(* ServerMap::save: every block that is modified, in one transaction.      *)
saveMap ==
  /\ "save" \in scene /\ Quiet /\ \E b \in ObjectBlocks : mapblock[b].modified
  /\ database' = [b \in ObjectBlocks |->
                    IF mapblock[b].modified THEN Serialized(mapblock[b]) ELSE database[b]]
  /\ mapblock' = [b \in ObjectBlocks |-> [mapblock[b] EXCEPT !.modified = FALSE]]
  /\ Untouched /\ UNCHANGED <<recent, loop, fate>>

(* timerUpdate: a block not used for a time is saved and deleted from      *)
(* memory.  The entries of its m_active become stored objects: of an       *)
(* object that is still there this makes two, of one that is to be removed *)
(* one that nobody removes.                                                *)
timerUnload(b) ==
  /\ Quiet /\ mapblock[b].inMemory /\ b \notin recent
  /\ database' = [database EXCEPT ![b] =
                    IF mapblock[b].modified THEN Serialized(mapblock[b]) ELSE @]
  /\ mapblock' = [mapblock EXCEPT ![b] = Unloaded]
  /\ fate' = [o \in Objects |->
                IF \E i \in Instances : /\ mapblock[b].active[i] = o
                                        /\ ~sao[i].deactivation
                THEN "doubled" ELSE fate[o]]
  /\ Untouched /\ UNCHANGED <<recent, loop>>

(* minetest.delete_area: deleteBlock.  setStaticForActiveObjectsInBlock    *)
(* comes after and finds no block, so it does nothing.                     *)
deleteBlock(b) ==
  /\ "delete" \in scene /\ Quiet /\ CanLoad(mapblock, b)
  /\ database' = [database EXCEPT ![b] = Missing]
  /\ mapblock' = [mapblock EXCEPT ![b] = Unloaded]
  /\ recent' = recent \ {b}
  /\ fate' = [o \in Objects |->
                IF \/ Emerged(mapblock, b)[b].stored[o] > 0
                   \/ \E i \in Instances : mapblock[b].active[i] = o /\ sao[i].deactivation
                THEN "deleted" ELSE fate[o]]
  /\ Untouched /\ UNCHANGED loop

(* clearObjects: the instances no client knows are deleted, the others     *)
(* marked; then the lists of the blocks in memory are emptied, and if full *)
(* those of the blocks on disk, which are loaded and unloaded for it.  The *)
(* others are left to activateBlock.                                       *)
clearObjects(full) ==
  /\ "clear" \in scene /\ Quiet
  /\ Instances # {} \/ \E b \in ObjectBlocks : CanLoad(mapblock, b)
  /\ mapblock' = [b \in ObjectBlocks |->
                    LET m == mapblock[b]
                    IN  IF m.stored = Nothing /\ m.active = NoneIn THEN m
                        ELSE [m EXCEPT !.stored = Nothing, !.active = NoneIn, !.modified = TRUE]]
  /\ database' = [b \in ObjectBlocks |->
                    IF full /\ ~mapblock[b].inMemory
                    THEN [database[b] EXCEPT !.objects = Nothing] ELSE database[b]]
  /\ sao' = [i \in ObjectIds |->
               IF sao[i].known
               THEN [sao[i] EXCEPT !.removal = TRUE,
                       !.static = IF @ # NoBlock /\ mapblock[@].inMemory THEN NoBlock ELSE @]
               ELSE NoSao]
  /\ fate' = [o \in Objects |-> IF fate[o] # "unborn" THEN "cleared" ELSE "unborn"]
  /\ m_last_clear_objects_time' = m_game_time
  /\ UNCHANGED <<ActiveBlocks, m_game_time, scene, recent, loop>>

(* ~ServerEnvironment: every instance is made static, even one that is to  *)
(* be removed; then the map is saved.  After that the server may start     *)
(* again.                                                                  *)
shutdown ==
  /\ "restart" \in scene /\ Quiet
  /\ loop' = [NoLoop EXCEPT !.op = "deactivate", !.ids = Instances, !.force = TRUE]
  /\ Untouched /\ UNCHANGED <<mapblock, database, recent, fate>>

restart ==
  /\ loop.op = "deactivate" /\ loop.force /\ loop.ids = {}
  /\ database' = [b \in ObjectBlocks |->
                    IF mapblock[b].modified THEN Serialized(mapblock[b]) ELSE database[b]]
  /\ mapblock' = [b \in ObjectBlocks |-> Unloaded]
  /\ ActiveBlocks' = {} /\ recent' = {}
  /\ loop' = NoLoop
  /\ UNCHANGED <<sao, clock, fate>>

ActiveObjectsNext ==
  \/ \E o \in Objects, b \in ObjectBlocks : addActiveObject(o, b) \/ activateObject(b, o)
  \/ \E i \in ObjectIds, b \in ObjectBlocks : MoveObject(i, b)
  \/ \E i \in ObjectIds :
       \/ KnownByClients(i) \/ markForRemoval(i)
       \/ StaysActive(i) \/ ResaveStatic(i) \/ Deactivate(i)
       \/ removeRemovedObject(i)
  \/ \E newlist \in SUBSET ObjectBlocks : ManageActiveBlocks(newlist)
  \/ \E b \in ObjectBlocks :
       \/ activateBlock(b) \/ BlockActivated(b)
       \/ loadFromDisk(b) \/ finishGenOf(b) \/ timerUnload(b) \/ deleteBlock(b)
  \/ \E full \in BOOLEAN : clearObjects(full)
  \/ EndDeactivation \/ EndActivation \/ BeginRemoval \/ EndRemoval
  \/ saveMap \/ shutdown \/ restart

ActiveObjectsSpec == ActiveObjectsInit /\ [][ActiveObjectsNext]_aoVars

-----------------------------------------------------------------------------
(* The copies of an object: instances that stay, what of it is stored in   *)
(* memory, or on disk where the block is not in memory, and entries of     *)
(* m_active.  Those of an object that stays are of the same copy; one that *)
(* waits for clients to forget it is in m_active of its block only.        *)
Staying(o) == {i \in ObjectIds : sao[i].who = o /\ ~Gone(i)}
Lying(b)   == IF mapblock[b].inMemory THEN mapblock[b].stored ELSE database[b].objects
StoredIn(o) == UNION {{<<b, n>> : n \in 1 .. Lying(b)[o]} : b \in ObjectBlocks}
Waiting(o) == {e \in ObjectBlocks \X ObjectIds :
                 mapblock[e[1]].active[e[2]] = o /\ sao[e[2]].deactivation}
Copies(o)  == Cardinality(Staying(o)) + Cardinality(StoredIn(o)) + Cardinality(Waiting(o))

ActiveObjectsTypeOK ==
  /\ sao \in [ObjectIds -> [who : Objects \union {NoObject}, at : ObjectBlocks \union {NoBlock},
                            known : BOOLEAN, removal : BOOLEAN, deactivation : BOOLEAN,
                            static : ObjectBlocks \union {NoBlock}]]
  /\ DOMAIN mapblock = ObjectBlocks
  /\ \A b \in ObjectBlocks :
       /\ mapblock[b].active \in [ObjectIds -> Objects \union {NoObject}]
       /\ mapblock[b].stored \in [Objects -> Nat]
       /\ ~mapblock[b].inMemory => mapblock[b] = Unloaded
       /\ database[b].exists \/ database[b] = Missing
  /\ ActiveBlocks \subseteq ObjectBlocks /\ recent \subseteq ObjectBlocks
  /\ m_last_clear_objects_time \in 0 .. m_game_time
  /\ fate \in [Objects -> {"unborn", "living", "removed", "lost", "thrown", "doubled",
                           "undead", "deleted", "cleared"}]

(* Whatever blocks are activated, saved and unloaded around it, and in     *)
(* whatever order an object moves between them, between two loops it is    *)
(* in one place: an instance or a stored object, in memory or on disk; and *)
(* one that was removed is nowhere.                                        *)
OneCopy ==
  Quiet => \A o \in Objects : /\ fate[o] = "living" => Copies(o) = 1
                              /\ fate[o] \in {"unborn", "removed"} => Copies(o) = 0

(* What "some kind of nasty bug" would be in setStaticForActiveObjects-    *)
(* InBlock, and the FATAL_ERROR of StaticObjectList::insert: an entry of   *)
(* m_active is of the instance with that id, which knows the block.        *)
NoNastyBug ==
  /\ loop.op # "fatal"
  /\ \A b \in ObjectBlocks, i \in ObjectIds :
       mapblock[b].active[i] # NoObject =>
         sao[i].who = mapblock[b].active[i] /\ sao[i].static = b

EachObjectOnce == OneCopy /\ NoNastyBug

(* After clearObjects nothing of what there was is activated again, though *)
(* it leaves what is on disk to the next activation of each block.         *)
ClearedForGood ==
  \A o \in Objects : fate[o] = "cleared" => ~\E i \in Instances : sao[i].who = o /\ ~Gone(i)
=============================================================================

------------------------ MODULE ActiveObjects_proofs ------------------------
(***************************************************************************)
(* Proofs about ActiveObjects, for any number of objects, ids and blocks,  *)
(* and any set of scenes.  ObjectsInv: the types, and the entries of       *)
(* m_active are of instances that know the block.  PlacedInv: where each   *)
(* object is, spot by spot; from it that it is in one place.  ClearedInv:  *)
(* what is left of what clearObjects cleared.                              *)
(***************************************************************************)
EXTENDS ActiveObjects, FiniteSetTheorems, TLAPS

SaoType   == [who : Objects \union {NoObject}, at : ObjectBlocks \union {NoBlock},
              known : BOOLEAN, removal : BOOLEAN, deactivation : BOOLEAN,
              static : ObjectBlocks \union {NoBlock}]
Stamps    == 0 .. MaxTime \union {BLOCK_TIMESTAMP_UNDEFINED}
Counts    == [Objects -> Nat]
Entries   == [ObjectIds -> Objects \union {NoObject}]
BlockType == [inMemory : BOOLEAN, active : Entries, stored : Counts, modified : BOOLEAN,
              stamp : Stamps]
DiskType  == [exists : BOOLEAN, objects : Counts, stamp : Stamps]
LoopType  == [op : {"none", "deactivate", "activate", "remove"}, ids : SUBSET ObjectIds,
              blocks : SUBSET ObjectBlocks, force : BOOLEAN, removed : SUBSET ObjectBlocks,
              current : ObjectBlocks \union {NoBlock}]
Fates     == {"unborn", "living", "removed", "lost", "thrown", "doubled", "undead", "deleted",
              "cleared"}

(* Blocks in memory, and on disk.                                          *)
Memory(mb) == /\ mb \in [ObjectBlocks -> BlockType]
              /\ \A b \in ObjectBlocks : ~mb[b].inMemory => mb[b] = Unloaded
Disk(db)   == /\ db \in [ObjectBlocks -> DiskType]
              /\ \A b \in ObjectBlocks : ~db[b].exists => db[b] = Missing

(* Instances, and what their blocks have entered of them.                  *)
Instanced(s)   == /\ s \in [ObjectIds -> SaoType]
                  /\ \A i \in ObjectIds : \/ s[i] = NoSao
                                          \/ s[i].who \in Objects /\ s[i].at \in ObjectBlocks
Entered(mb, s) == \A b \in ObjectBlocks, i \in ObjectIds :
                    mb[b].active[i] # NoObject =>
                      s[i].who = mb[b].active[i] /\ s[i].static = b

LoopInv ==
  /\ loop \in LoopType
  /\ loop.ids \subseteq Instances
  /\ loop.op \in {"none", "activate"} => loop.ids = {}
  /\ loop.op = "remove" => \A i \in loop.ids : Gone(i)
  /\ loop.op # "activate" => loop.current = NoBlock
  /\ loop.op = "activate" =>
       /\ \A b \in loop.blocks : mapblock[b].inMemory
       /\ loop.current # NoBlock => mapblock[loop.current].inMemory
  /\ loop.op \in {"none", "remove"} => loop.blocks = {}
  /\ loop.op # "deactivate" => loop.removed = {} /\ ~loop.force
  /\ loop.force => Instances \subseteq loop.ids /\ loop.blocks = {} /\ loop.removed = {}
  /\ loop.force => "restart" \in scene

ObjectsInv ==
  /\ scene \in Scenes
  /\ Memory(mapblock) /\ Disk(database) /\ Instanced(sao) /\ Entered(mapblock, sao) /\ LoopInv
  /\ ActiveBlocks \subseteq ObjectBlocks /\ recent \subseteq ObjectBlocks
  /\ m_game_time \in 0 .. MaxTime /\ m_last_clear_objects_time \in 0 .. m_game_time
  /\ fate \in [Objects -> Fates]

-----------------------------------------------------------------------------
(* What lies in a block, and its timestamp, in memory or on disk; and      *)
(* whether it would be lost if the block were dropped from memory.         *)
Lies(mb, db, b)  == IF mb[b].inMemory THEN mb[b].stored ELSE db[b].objects
Stamp(mb, db, b) == IF mb[b].inMemory THEN mb[b].stamp ELSE db[b].stamp
OnDisk(mb, b)    == ~(mb[b].inMemory /\ mb[b].modified)
SpotBlocks       == ObjectBlocks \union {NoBlock}

(* Blocks are loaded, and nothing else.                                    *)
Same(mb, db, r) ==
  \A b \in ObjectBlocks :
    /\ mb[b].inMemory => r[b].inMemory
    /\ Stamp(r, db, b) = Stamp(mb, db, b) /\ Lies(r, db, b) = Lies(mb, db, b)
    /\ r[b].active = mb[b].active
    /\ OnDisk(r, b) => OnDisk(mb, b)

(* Blocks are loaded, and what they have of instance i is that c has an    *)
(* entry, and that c2 has one more stored: either may be no block.         *)
Changed(mb, db, r, i, o, c, c2) ==
  \A b \in ObjectBlocks :
    /\ mb[b].inMemory => r[b].inMemory
    /\ Stamp(r, db, b) = Stamp(mb, db, b)
    /\ \A x \in Objects :
         Lies(r, db, b)[x] = Lies(mb, db, b)[x] + IF b = c2 /\ x = o THEN 1 ELSE 0
    /\ \A j \in ObjectIds :
         r[b].active[j] = IF j # i THEN mb[b].active[j] ELSE IF b = c THEN o ELSE NoObject
    /\ OnDisk(r, b) => OnDisk(mb, b)

NotEntered(mb, i) == \A b \in ObjectBlocks : mb[b].active[i] = NoObject

LEMMA TypesOfNothing ==
  /\ Nothing \in Counts /\ NoneIn \in Entries /\ NoSao \in SaoType
  /\ Unloaded \in BlockType /\ Missing \in DiskType
  BY DEF Nothing, Counts, NoneIn, Entries, NoSao, SaoType, Unloaded, BlockType, Missing, DiskType,
     Stamps

LEMMA FromDiskIs ==
  ASSUME Disk(database), NEW b \in ObjectBlocks, NEW m, m = FromDisk(b)
  PROVE  /\ m \in BlockType /\ m.inMemory /\ m.active = NoneIn
         /\ m.stored = database[b].objects /\ m.stamp = database[b].stamp
         /\ m.modified <=> ~database[b].exists
  BY TypesOfNothing DEF Disk, FromDisk, BlockType, DiskType

LEMMA BlockIs ==
  ASSUME NEW mb, Memory(mb), NEW b \in ObjectBlocks
  PROVE  /\ mb[b] \in BlockType /\ mb[b].inMemory \in BOOLEAN /\ mb[b].modified \in BOOLEAN
         /\ mb[b].active \in Entries /\ mb[b].stored \in Counts /\ mb[b].stamp \in Stamps
         /\ ~mb[b].inMemory => mb[b].active = NoneIn /\ mb[b].stored = Nothing
  BY DEF Memory, BlockType, Unloaded

(* emergeBlock.                                                            *)
LEMMA EmergedIs ==
  ASSUME Disk(database), NEW mb, Memory(mb), NEW b \in ObjectBlocks, NEW r, r = Emerged(mb, b)
  PROVE  Memory(r) /\ r[b].inMemory /\ Same(mb, database, r)
<1>1. CASE mb[b].inMemory
  BY <1>1 DEF Emerged, Same
<1>2. CASE ~mb[b].inMemory
  <2>1. r = [mb EXCEPT ![b] = FromDisk(b)]
    BY <1>2 DEF Emerged
  <2>2. r \in [ObjectBlocks -> BlockType] /\ r[b] = FromDisk(b)
        /\ \A c \in ObjectBlocks : c # b => r[c] = mb[c]
    BY <2>1, FromDiskIs DEF Memory
  <2>3. Memory(r)
    BY <2>2, FromDiskIs DEF Memory
  <2>4. ASSUME NEW c \in ObjectBlocks
        PROVE  /\ mb[c].inMemory => r[c].inMemory
               /\ Stamp(r, database, c) = Stamp(mb, database, c)
               /\ Lies(r, database, c) = Lies(mb, database, c)
               /\ r[c].active = mb[c].active
               /\ OnDisk(r, c) => OnDisk(mb, c)
    <3>1. CASE c = b
      BY <3>1, <1>2, <2>2, FromDiskIs, BlockIs DEF Stamp, Lies, OnDisk
    <3>2. CASE c # b
      BY <3>2, <2>2 DEF Stamp, Lies, OnDisk
    <3>3. QED
      BY <3>1, <3>2
  <2>5. QED
    BY <2>2, <2>3, <2>4, FromDiskIs DEF Same
<1>3. QED
  BY <1>1, <1>2

(* Two changes, of which the first only takes away what there is.          *)
LEMMA ChangedSame ==
  ASSUME NEW mb, NEW m, NEW r, NEW i \in ObjectIds, NEW o, NEW c, NEW c2, Disk(database),
         Memory(mb), Memory(m), Memory(r)
  PROVE  /\ Changed(mb, database, m, i, o, c, c2) /\ Same(m, database, r)
              => Changed(mb, database, r, i, o, c, c2)
         /\ Same(mb, database, m) /\ Changed(m, database, r, i, o, c, c2)
              => Changed(mb, database, r, i, o, c, c2)
  BY DEF Changed, Same

LEMMA ChangedTwice ==
  ASSUME NEW mb, NEW m, NEW r, NEW i \in ObjectIds, NEW o, NEW c, NEW c2, Disk(database),
         Memory(mb), Memory(m), Memory(r), Changed(mb, database, m, i, o, NoBlock, NoBlock),
         Changed(m, database, r, i, o, c, c2)
  PROVE  Changed(mb, database, r, i, o, c, c2)
<1>1. \A b \in ObjectBlocks, x \in Objects : Lies(mb, database, b)[x] \in Nat
  BY BlockIs DEF Lies, Counts, Disk, DiskType
<1>2. \A b \in ObjectBlocks, x \in Objects : Lies(m, database, b)[x] = Lies(mb, database, b)[x]
  BY <1>1, ActiveObjectsAssumption DEF Changed
<1>3. QED
  BY <1>2 DEF Changed

LEMMA SameIsChanged ==
  ASSUME NEW mb, NEW r, NEW i \in ObjectIds, NEW o, Disk(database), Memory(mb), Memory(r),
         Same(mb, database, r), NotEntered(mb, i)
  PROVE  Changed(mb, database, r, i, o, NoBlock, NoBlock)
<1>1. \A b \in ObjectBlocks, x \in Objects : Lies(mb, database, b)[x] \in Nat
  BY BlockIs DEF Lies, Counts, Disk, DiskType
<1>2. QED
  BY <1>1, ActiveObjectsAssumption DEF Changed, Same, NotEntered

(* deleteStaticFromBlock: no block has an entry of the instance any more.  *)
LEMMA DeletedIs ==
  ASSUME Disk(database), NEW mb, Memory(mb), NEW i \in ObjectIds, NEW s \in SaoType, NEW o,
         \A b \in ObjectBlocks : mb[b].active[i] # NoObject => s.static = b,
         NEW w, w \in BOOLEAN, NEW r, r = StaticDeleted(mb, s, i, w)
  PROVE  /\ Memory(r) /\ Changed(mb, database, r, i, o, NoBlock, NoBlock)
         /\ \A b \in ObjectBlocks : w /\ mb[b].active[i] # NoObject => ~OnDisk(r, b)
<1> DEFINE d == s.static
           e == Emerged(mb, d)
<1>1. CASE d = NoBlock \/ ~CanLoad(mb, d)
  <2>1. r = mb
    BY <1>1 DEF StaticDeleted
  <2>2. NotEntered(mb, i)
    <3>1. ASSUME NEW b \in ObjectBlocks, mb[b].active[i] # NoObject PROVE FALSE
      <4>1. b = d /\ ~mb[b].inMemory
        BY <3>1, <1>1, ActiveObjectsAssumption DEF CanLoad
      <4>2. QED
        BY <3>1, <4>1, BlockIs DEF NoneIn
    <3>2. QED
      BY <3>1 DEF NotEntered
  <2>3. Same(mb, database, r)
    BY <2>1 DEF Same
  <2>4. QED
    BY <2>1, <2>2, <2>3, SameIsChanged DEF NotEntered
<1>2. CASE d # NoBlock /\ CanLoad(mb, d)
  <2>1. d \in ObjectBlocks
    BY <1>2 DEF SaoType
  <2>2. Memory(e) /\ e[d].inMemory /\ Same(mb, database, e)
    BY <2>1, EmergedIs
  <2>3. r = [e EXCEPT ![d].active[i] = NoObject, ![d].modified = @ \/ w]
    BY <1>2 DEF StaticDeleted
  <2> HIDE DEF e
  <2>4. e[d] \in BlockType /\ e[d].active \in Entries
    BY <2>1, <2>2, BlockIs
  <2>5. r[d] = [e[d] EXCEPT !.active[i] = NoObject, !.modified = @ \/ w]
        /\ r \in [ObjectBlocks -> BlockType] /\ \A b \in ObjectBlocks : b # d => r[b] = e[b]
    <3>1. [e[d] EXCEPT !.active[i] = NoObject, !.modified = @ \/ w] \in BlockType
      BY <2>4 DEF BlockType, Entries
    <3>2. e \in [ObjectBlocks -> BlockType]
      BY <2>2 DEF Memory
    <3>3. r = [e EXCEPT ![d] = [e[d] EXCEPT !.active[i] = NoObject, !.modified = @ \/ w]]
      BY <2>1, <2>3, <2>4, <3>2 DEF BlockType
    <3>4. QED
      BY <2>1, <3>1, <3>2, <3>3
  <2>6. /\ r[d].inMemory /\ r[d].stored = e[d].stored /\ r[d].stamp = e[d].stamp
        /\ r[d].active = [e[d].active EXCEPT ![i] = NoObject]
        /\ r[d].modified = (e[d].modified \/ w)
    BY <2>2, <2>4, <2>5 DEF BlockType
  <2>7. Memory(r)
    BY <2>1, <2>2, <2>5, <2>6 DEF Memory
  <2>8. \A b \in ObjectBlocks, x \in Objects : Lies(mb, database, b)[x] \in Nat
    BY BlockIs DEF Lies, Counts, Disk, DiskType
  <2>9. ASSUME NEW b \in ObjectBlocks
        PROVE  /\ mb[b].inMemory => r[b].inMemory
               /\ Stamp(r, database, b) = Stamp(mb, database, b)
               /\ Lies(r, database, b) = Lies(mb, database, b)
               /\ r[b].active = [mb[b].active EXCEPT ![i] = NoObject]
               /\ OnDisk(r, b) => OnDisk(mb, b)
               /\ w /\ mb[b].active[i] # NoObject => ~OnDisk(r, b)
    <3>1. mb[b].active \in Entries /\ e[b].active = mb[b].active
      BY <2>2, BlockIs DEF Same
    <3>2. CASE b = d
      <4>1. r[b].active = [mb[b].active EXCEPT ![i] = NoObject]
        BY <3>1, <3>2, <2>6
      <4>2. /\ mb[b].inMemory => r[b].inMemory
            /\ Stamp(r, database, b) = Stamp(mb, database, b)
            /\ Lies(r, database, b) = Lies(mb, database, b)
            /\ OnDisk(r, b) => OnDisk(mb, b)
        <5>1. /\ e[b].inMemory /\ (OnDisk(e, b) => OnDisk(mb, b))
              /\ Stamp(e, database, b) = Stamp(mb, database, b)
              /\ Lies(e, database, b) = Lies(mb, database, b)
          BY <3>2, <2>2 DEF Same
        <5>2. /\ r[b].inMemory /\ r[b].stored = e[b].stored /\ r[b].stamp = e[b].stamp
              /\ r[b].modified <=> e[b].modified \/ w
          BY <3>2, <2>6
        <5>3. /\ Stamp(r, database, b) = Stamp(e, database, b)
              /\ Lies(r, database, b) = Lies(e, database, b)
              /\ OnDisk(r, b) => OnDisk(e, b)
          BY <5>1, <5>2 DEF Stamp, Lies, OnDisk
        <5>4. QED
          BY <5>1, <5>2, <5>3
      <4>3. w => ~OnDisk(r, b)
        BY <3>2, <2>6 DEF OnDisk
      <4>4. QED
        BY <4>1, <4>2, <4>3
    <3>3. CASE b # d
      <4>1. mb[b].active[i] = NoObject
        BY <3>3
      <4>2. mb[b].active = [mb[b].active EXCEPT ![i] = NoObject]
        BY <3>1, <4>1 DEF Entries
      <4>3. r[b] = e[b]
        BY <3>3, <2>5
      <4>4. QED
        BY <4>1, <4>2, <4>3, <2>2 DEF Same, Stamp, Lies, OnDisk
    <3>4. QED
      BY <3>2, <3>3
  <2>10. Changed(mb, database, r, i, o, NoBlock, NoBlock)
    <3>1. \A b \in ObjectBlocks, j \in ObjectIds :
            r[b].active[j] = IF j # i THEN mb[b].active[j] ELSE NoObject
      <4>1. SUFFICES ASSUME NEW b \in ObjectBlocks, NEW j \in ObjectIds
                     PROVE  r[b].active[j] = IF j # i THEN mb[b].active[j] ELSE NoObject
        OBVIOUS
      <4>2. mb[b].active \in Entries /\ r[b].active = [mb[b].active EXCEPT ![i] = NoObject]
        BY <2>9, BlockIs
      <4>3. QED
        BY <4>2 DEF Entries
    <3>2. \A b \in ObjectBlocks : b # NoBlock
      BY ActiveObjectsAssumption
    <3>3. \A b \in ObjectBlocks, x \in Objects :
            Lies(r, database, b)[x] = Lies(mb, database, b)[x] + 0
      <4>1. SUFFICES ASSUME NEW b \in ObjectBlocks, NEW x \in Objects
                     PROVE  Lies(r, database, b)[x] = Lies(mb, database, b)[x] + 0
        OBVIOUS
      <4>2. Lies(r, database, b) = Lies(mb, database, b)
        BY <2>9
      <4>3. Lies(mb, database, b)[x] \in Nat
        BY <2>8
      <4>4. QED
        BY <4>2, <4>3
    <3>4. QED
      BY <2>9, <3>1, <3>2, <3>3 DEF Changed
  <2>11. QED
    BY <2>7, <2>9, <2>10
<1>3. QED
  BY <1>1, <1>2

(* saveStaticToBlock, of an instance no block has an entry of.             *)
LEMMA SavedIs ==
  ASSUME Disk(database), NEW mb, Memory(mb), NEW i \in ObjectIds, NEW o \in Objects,
         NEW at \in ObjectBlocks, NotEntered(mb, i), NEW w, w \in BOOLEAN
  PROVE  /\ \A r : r = StaticSaved(mb, at, i, o, w) =>
              /\ Memory(r) /\ Changed(mb, database, r, i, o, at, NoBlock)
              /\ w => ~OnDisk(r, at)
         /\ \A r : r = StaticSaved(mb, at, NoId, o, w) =>
              /\ Memory(r) /\ Changed(mb, database, r, i, o, NoBlock, at)
              /\ w => ~OnDisk(r, at)
<1> DEFINE e == Emerged(mb, at)
<1>1. Memory(e) /\ e[at].inMemory /\ Same(mb, database, e)
  BY EmergedIs
<1>2. /\ Changed(mb, database, e, i, o, NoBlock, NoBlock) /\ i # NoId
      /\ \A b \in ObjectBlocks : b # NoBlock
  BY <1>1, SameIsChanged, ActiveObjectsAssumption
<1>3. \A b \in ObjectBlocks, x \in Objects : Lies(mb, database, b)[x] \in Nat
  BY BlockIs DEF Lies, Counts, Disk, DiskType
<1>4. ASSUME NEW r, r = StaticSaved(mb, at, i, o, w)
      PROVE  /\ Memory(r) /\ Changed(mb, database, r, i, o, at, NoBlock)
             /\ w => ~OnDisk(r, at)
  <2>1. r = [[e EXCEPT ![at].modified = @ \/ w] EXCEPT ![at].active[i] = o]
    BY <1>2, <1>4 DEF StaticSaved
  <2> HIDE DEF e
  <2>2. e[at] \in BlockType /\ e[at].active \in Entries /\ e \in [ObjectBlocks -> BlockType]
    BY <1>1, BlockIs DEF Memory
  <2>3. [e[at] EXCEPT !.modified = @ \/ w, !.active[i] = o] \in BlockType
    BY <2>2 DEF BlockType, Entries
  <2>4. r = [e EXCEPT ![at] = [e[at] EXCEPT !.modified = @ \/ w, !.active[i] = o]]
    BY <2>1, <2>2 DEF BlockType
  <2>5. /\ r \in [ObjectBlocks -> BlockType] /\ \A b \in ObjectBlocks : b # at => r[b] = e[b]
        /\ r[at].inMemory /\ r[at].stored = e[at].stored /\ r[at].stamp = e[at].stamp
        /\ r[at].active = [e[at].active EXCEPT ![i] = o]
        /\ r[at].modified = (e[at].modified \/ w)
    BY <1>1, <2>2, <2>3, <2>4 DEF BlockType
  <2>6. Memory(r)
    BY <1>1, <2>5 DEF Memory
  <2>7. ASSUME NEW b \in ObjectBlocks
        PROVE  /\ mb[b].inMemory => r[b].inMemory
               /\ Stamp(r, database, b) = Stamp(mb, database, b)
               /\ \A x \in Objects : Lies(r, database, b)[x] = Lies(mb, database, b)[x] + 0
               /\ \A j \in ObjectIds :
                    r[b].active[j] = IF j # i THEN mb[b].active[j]
                                     ELSE IF b = at THEN o ELSE NoObject
               /\ OnDisk(r, b) => OnDisk(mb, b)
    <3>1. Lies(r, database, b) = Lies(e, database, b) /\ Stamp(r, database, b) = Stamp(e, database, b)
          /\ (e[b].inMemory => r[b].inMemory) /\ (OnDisk(r, b) => OnDisk(e, b))
      BY <1>1, <2>2, <2>5 DEF Lies, Stamp, OnDisk
    <3>2. Lies(r, database, b) = Lies(mb, database, b)
      BY <3>1, <1>1 DEF Same
    <3>3. \A x \in Objects : Lies(r, database, b)[x] = Lies(mb, database, b)[x] + 0
      <4>1. SUFFICES ASSUME NEW x \in Objects
                     PROVE  Lies(r, database, b)[x] = Lies(mb, database, b)[x] + 0
        OBVIOUS
      <4>2. Lies(mb, database, b)[x] \in Nat
        BY <1>3
      <4>3. QED
        BY <3>2, <4>2
    <3>4. \A j \in ObjectIds :
            r[b].active[j] = IF j # i THEN mb[b].active[j]
                             ELSE IF b = at THEN o ELSE NoObject
      BY <2>2, <2>5, <1>1 DEF Same, Entries, NotEntered
    <3>5. QED
      BY <1>1, <3>1, <3>3, <3>4 DEF Same
  <2>8. w => ~OnDisk(r, at)
    BY <2>5 DEF OnDisk
  <2>9. QED
    BY <1>2, <2>6, <2>7, <2>8 DEF Changed
<1>5. ASSUME NEW r, r = StaticSaved(mb, at, NoId, o, w)
      PROVE  /\ Memory(r) /\ Changed(mb, database, r, i, o, NoBlock, at)
             /\ w => ~OnDisk(r, at)
  <2>1. r = [[e EXCEPT ![at].modified = @ \/ w] EXCEPT ![at].stored[o] = @ + 1]
    BY <1>5 DEF StaticSaved
  <2> HIDE DEF e
  <2>2. /\ e[at] \in BlockType /\ e[at].stored \in Counts /\ e \in [ObjectBlocks -> BlockType]
        /\ e[at].stored[o] \in Nat
    BY <1>1, BlockIs DEF Memory, Counts
  <2>3. [e[at] EXCEPT !.modified = @ \/ w, !.stored[o] = @ + 1] \in BlockType
    <3>1. e[at].stored[o] + 1 \in Nat
      BY <2>2
    <3>2. [e[at].stored EXCEPT ![o] = @ + 1] \in Counts
      BY <2>2, <3>1 DEF Counts
    <3>3. QED
      BY <2>2, <3>2 DEF BlockType
  <2>4. r = [e EXCEPT ![at] = [e[at] EXCEPT !.modified = @ \/ w, !.stored[o] = @ + 1]]
    BY <2>1, <2>2 DEF BlockType
  <2>5. /\ r \in [ObjectBlocks -> BlockType] /\ \A b \in ObjectBlocks : b # at => r[b] = e[b]
        /\ r[at].inMemory /\ r[at].active = e[at].active /\ r[at].stamp = e[at].stamp
        /\ r[at].stored = [e[at].stored EXCEPT ![o] = @ + 1]
        /\ r[at].modified = (e[at].modified \/ w)
    BY <1>1, <2>2, <2>3, <2>4 DEF BlockType
  <2>6. Memory(r)
    BY <1>1, <2>5 DEF Memory
  <2>7. ASSUME NEW b \in ObjectBlocks
        PROVE  /\ mb[b].inMemory => r[b].inMemory
               /\ Stamp(r, database, b) = Stamp(mb, database, b)
               /\ \A x \in Objects : Lies(r, database, b)[x] = Lies(mb, database, b)[x]
                                       + IF b = at /\ x = o THEN 1 ELSE 0
               /\ \A j \in ObjectIds :
                    r[b].active[j] = IF j # i THEN mb[b].active[j] ELSE NoObject
               /\ OnDisk(r, b) => OnDisk(mb, b)
    <3>1. /\ Stamp(r, database, b) = Stamp(e, database, b)
          /\ e[b].inMemory => r[b].inMemory
          /\ OnDisk(r, b) => OnDisk(e, b)
          /\ r[b].active = e[b].active
      BY <1>1, <2>2, <2>5 DEF Stamp, OnDisk
    <3>2. ASSUME NEW x \in Objects
          PROVE  Lies(r, database, b)[x] = Lies(mb, database, b)[x]
                                             + IF b = at /\ x = o THEN 1 ELSE 0
      <4>1. Lies(mb, database, b)[x] \in Nat /\ Lies(e, database, b) = Lies(mb, database, b)
        BY <1>1, <1>3 DEF Same
      <4>2. CASE b = at
        <5>1. Lies(r, database, b) = [e[at].stored EXCEPT ![o] = @ + 1]
              /\ Lies(e, database, b) = e[at].stored
          BY <1>1, <2>5, <4>2 DEF Lies
        <5>2. QED
          BY <4>1, <4>2, <5>1, <2>2 DEF Counts
      <4>3. CASE b # at
        <5>1. Lies(r, database, b) = Lies(e, database, b)
          BY <2>5, <4>3 DEF Lies
        <5>2. QED
          BY <4>1, <4>3, <5>1
      <4>4. QED
        BY <4>2, <4>3
    <3>3. \A j \in ObjectIds :
            r[b].active[j] = IF j # i THEN mb[b].active[j] ELSE NoObject
      BY <3>1, <1>1 DEF Same, NotEntered
    <3>4. QED
      BY <1>1, <3>1, <3>2, <3>3 DEF Same
  <2>8. w => ~OnDisk(r, at)
    BY <2>5 DEF OnDisk
  <2>9. QED
    BY <1>2, <2>6, <2>7, <2>8 DEF Changed
<1>6. QED
  BY <1>4, <1>5

-----------------------------------------------------------------------------
(* What the steps do to the blocks, in these terms.                        *)

LEMMA InstanceIs ==
  ASSUME ObjectsInv, NEW i \in ObjectIds
  PROVE  /\ sao[i] \in SaoType
         /\ i \in Instances => sao[i].who \in Objects /\ sao[i].at \in ObjectBlocks
         /\ i \notin Instances => sao[i] = NoSao /\ NotEntered(mapblock, i)
         /\ \A b \in ObjectBlocks : mapblock[b].active[i] # NoObject => sao[i].static = b
<1>1. sao[i] \in SaoType /\ (sao[i] = NoSao \/ (sao[i].who \in Objects /\ sao[i].at \in ObjectBlocks))
  <2>1. Instanced(sao)
    BY DEF ObjectsInv
  <2>2. QED
    BY <2>1 DEF Instanced
<1>2. NoSao.who = NoObject /\ NoObject \notin Objects
  BY ActiveObjectsAssumption DEF NoSao
<1>3. \A b \in ObjectBlocks : mapblock[b].active[i] # NoObject
        => sao[i].static = b /\ sao[i].who = mapblock[b].active[i]
  BY DEF ObjectsInv, Entered
<1>4. QED
  BY <1>1, <1>2, <1>3 DEF Instances, NotEntered

LEMMA AddIs ==
  ASSUME ObjectsInv, NEW o \in Objects, NEW b \in ObjectBlocks, addActiveObject(o, b)
  PROVE  \E i \in ObjectIds :
           /\ i \notin Instances /\ sao' = [sao EXCEPT ![i] = Registered(o, b)]
           /\ Memory(mapblock') /\ Changed(mapblock, database, mapblock', i, o, b, NoBlock)
           /\ ~OnDisk(mapblock', b)
<1>1. Memory(mapblock) /\ Disk(database)
  BY DEF ObjectsInv
<1>2. PICK i \in ObjectIds \ Instances :
        /\ sao' = [sao EXCEPT ![i] = Registered(o, b)]
        /\ Keep([Emerged(mapblock, b) EXCEPT ![b].active[i] = o, ![b].modified = TRUE])
  BY Zenon DEF addActiveObject
<1>3. NotEntered(mapblock, i) /\ i # NoId
  BY InstanceIs, ActiveObjectsAssumption
<1> DEFINE e == Emerged(mapblock, b)
           r == StaticSaved(mapblock, b, i, o, TRUE)
<1>4. Memory(r) /\ Changed(mapblock, database, r, i, o, b, NoBlock) /\ ~OnDisk(r, b)
  BY <1>1, <1>3, SavedIs
<1>5. mapblock' = r
  <2>1. Memory(e) /\ e[b].inMemory
    BY <1>1, EmergedIs
  <2>2. mapblock' = [e EXCEPT ![b].active[i] = o, ![b].modified = TRUE]
    BY <1>2 DEF Keep
  <2>3. r = [[e EXCEPT ![b].modified = @ \/ TRUE] EXCEPT ![b].active[i] = o]
    BY <1>3 DEF StaticSaved
  <2> HIDE DEF e, r
  <2>4. e[b] \in BlockType /\ e \in [ObjectBlocks -> BlockType]
    BY <2>1, BlockIs DEF Memory
  <2>5. QED
    BY <2>2, <2>3, <2>4 DEF BlockType
<1>6. QED
  BY <1>2, <1>4, <1>5, Zenon

(* ResaveStatic: the entry is now in c, if there is one.                   *)
Resaved(i, s, c, st) ==
  /\ c = st \/ c = NoBlock
  /\ sao' = [sao EXCEPT ![i].static = st]
  /\ Changed(mapblock, database, mapblock', i, s.who, c, NoBlock)
  /\ \A b \in ObjectBlocks :
       b = c \/ mapblock[b].active[i] # NoObject => ~OnDisk(mapblock', b)

LEMMA ResaveIs ==
  ASSUME ObjectsInv, NEW i \in ObjectIds, ResaveStatic(i)
  PROVE  /\ i \in Instances /\ i \in loop.ids /\ loop.op = "deactivate" /\ ~loop.force /\ ~Gone(i)
         /\ IsActive(sao[i].at)
         /\ loop' = [loop EXCEPT !.ids = @ \ {i}]
         /\ Memory(mapblock')
         /\ \E c \in SpotBlocks : \E st \in SpotBlocks : Resaved(i, sao[i], c, st)
<1> DEFINE s == sao[i]
           m == StaticDeleted(mapblock, s, i, TRUE)
<1>1. Memory(mapblock) /\ Disk(database) /\ i \in loop.ids /\ loop.op = "deactivate"
      /\ i \in Instances /\ ~loop.force /\ ~Gone(i) /\ IsActive(sao[i].at)
  BY DEF ObjectsInv, LoopInv, ResaveStatic, Deactivating, LeftBehind
<1>2. s \in SaoType /\ s.who \in Objects /\ s.at \in ObjectBlocks
  BY <1>1, InstanceIs
<1>3. /\ Memory(m) /\ Changed(mapblock, database, m, i, s.who, NoBlock, NoBlock)
      /\ \A b \in ObjectBlocks : mapblock[b].active[i] # NoObject => ~OnDisk(m, b)
  <2>1. \A b \in ObjectBlocks : mapblock[b].active[i] # NoObject => s.static = b
    BY InstanceIs
  <2>2. QED
    BY <1>1, <1>2, <2>1, DeletedIs
<1>4. NotEntered(m, i) /\ NoBlock \notin ObjectBlocks
  BY <1>3, ActiveObjectsAssumption DEF NotEntered, Changed
<1>5. CASE Full(m, s.at)
  <2> DEFINE st == StaticLeft(mapblock, s)
  <2>1. /\ Keep(Emerged(m, s.at)) /\ sao' = [sao EXCEPT ![i].static = st] /\ Done(i)
    BY <1>5 DEF ResaveStatic
  <2> DEFINE r == Emerged(m, s.at)
  <2>2. Memory(r) /\ Same(m, database, r) /\ mapblock' = r
    BY <1>1, <1>2, <1>3, <2>1, EmergedIs DEF Keep
  <2>3. Changed(mapblock, database, r, i, s.who, NoBlock, NoBlock)
    BY <1>1, <1>3, <2>2, ChangedSame
  <2>4. st \in ObjectBlocks \union {NoBlock}
    BY <1>2 DEF StaticLeft, SaoType
  <2>5. \A b \in ObjectBlocks : mapblock[b].active[i] # NoObject => ~OnDisk(r, b)
    BY <1>3, <2>2 DEF Same
  <2>6. \A b \in ObjectBlocks :
          b = NoBlock \/ mapblock[b].active[i] # NoObject => ~OnDisk(mapblock', b)
    BY <1>4, <2>2, <2>5
  <2>7. Resaved(i, s, NoBlock, st)
    <3> HIDE DEF r, st, m, s
    <3>1. QED
      BY <2>1, <2>2, <2>3, <2>6 DEF Resaved
  <2>8. NoBlock \in SpotBlocks /\ st \in SpotBlocks /\ Memory(mapblock')
    BY <2>2, <2>4 DEF SpotBlocks
  <2> HIDE DEF r, st, m
  <2>9. QED
    BY <1>1, <2>1, <2>7, <2>8 DEF Done
<1>6. CASE ~Full(m, s.at)
  <2> DEFINE r == StaticSaved(m, s.at, i, s.who, TRUE)
  <2>1. /\ Keep(r) /\ sao' = [sao EXCEPT ![i].static = s.at]
        /\ IF IdIsActive(m, s.at, i) THEN Fatal ELSE Done(i)
    BY <1>6 DEF ResaveStatic
  <2>2. Memory(r) /\ Changed(m, database, r, i, s.who, s.at, NoBlock) /\ ~OnDisk(r, s.at)
    BY <1>1, <1>2, <1>3, <1>4, SavedIs
  <2>3. Changed(mapblock, database, r, i, s.who, s.at, NoBlock)
    <3> HIDE DEF m, r
    <3>1. QED
      BY <1>1, <1>3, <2>2, ChangedTwice
  <2>4. ~IdIsActive(m, s.at, i)
    <3>1. Same(m, database, Emerged(m, s.at))
      BY <1>1, <1>2, <1>3, EmergedIs
    <3>2. QED
      BY <1>2, <1>4, <3>1 DEF IdIsActive, Same, NotEntered
  <2>5. \A b \in ObjectBlocks : mapblock[b].active[i] # NoObject => ~OnDisk(r, b)
    BY <1>3, <2>2 DEF Changed
  <2>6. mapblock' = r
    BY <2>1 DEF Keep
  <2>7. \A b \in ObjectBlocks :
          b = s.at \/ mapblock[b].active[i] # NoObject => ~OnDisk(mapblock', b)
    BY <2>2, <2>5, <2>6
  <2>8. Resaved(i, s, s.at, s.at)
    <3> HIDE DEF r, m, s
    <3>1. QED
      BY <2>1, <2>3, <2>6, <2>7 DEF Resaved
  <2>9. s.at \in SpotBlocks /\ Memory(mapblock')
    BY <1>2, <2>2, <2>6 DEF SpotBlocks
  <2> HIDE DEF r, m
  <2>10. QED
    BY <1>1, <2>1, <2>4, <2>8, <2>9 DEF Done
<1>7. QED
  BY <1>5, <1>6

(* Deactivate: an object that becomes static is stored, or waits for       *)
(* clients with an entry, or is lost; what is not marked as modified still *)
(* holds it, but then.                                                     *)
Waits(i, s) == sao' = [sao EXCEPT ![i] = [s EXCEPT !.static = s.at, !.deactivation = TRUE]]
Leaves(i)   == sao' = [sao EXCEPT ![i] = NoSao]
Deactivated(i, s, c, c2, w) ==
  /\ Changed(mapblock, database, mapblock', i, s.who, c, c2)
  /\ ~w => s.static = s.at /\ mapblock[s.at].active[i] # NoObject
  /\ w => \A b \in ObjectBlocks :
            b = c \/ b = c2 \/ mapblock[b].active[i] # NoObject => ~OnDisk(mapblock', b)
  /\ \/ /\ c = NoBlock /\ c2 = NoBlock /\ Leaves(i)
        /\ fate' = [fate EXCEPT ![s.who] = IF @ = "living" THEN "lost"
                                           ELSE IF @ = "removed" /\ ~w THEN "undead" ELSE @]
     \/ /\ \/ c = s.at /\ c2 = NoBlock /\ ~loop.force /\ Waits(i, s)
           \/ c = NoBlock /\ c2 = s.at /\ Leaves(i)
        /\ fate' = [fate EXCEPT ![s.who] = IF @ = "removed" THEN "undead"
                                           ELSE IF s.deactivation /\ NotEntered(mapblock, i)
                                                THEN "doubled" ELSE @]

LEMMA DeactivateIs ==
  ASSUME ObjectsInv, NEW i \in ObjectIds, Deactivate(i)
  PROVE  /\ i \in Instances /\ i \in loop.ids /\ loop.op = "deactivate"
         /\ loop.force \/ (~Gone(i) /\ ~IsActive(sao[i].at))
         /\ loop' = [loop EXCEPT !.ids = @ \ {i}]
         /\ Memory(mapblock')
         /\ \E c \in SpotBlocks : \E c2 \in SpotBlocks : \E w \in BOOLEAN :
              Deactivated(i, sao[i], c, c2, w)
<1> DEFINE s == sao[i]
           pending == s.known /\ ~loop.force
           id == IF pending THEN i ELSE NoId
           old == IF s.static # NoBlock /\ CanLoad(mapblock, s.static)
                  THEN Emerged(mapblock, s.static)[s.static].active[i] ELSE NoObject
<1>1. /\ Memory(mapblock) /\ Disk(database) /\ i \in loop.ids /\ loop.op = "deactivate"
      /\ i \in Instances /\ (loop.force \/ (~Gone(i) /\ ~IsActive(s.at)))
  BY DEF ObjectsInv, LoopInv, Deactivate, Deactivating
<1>2. /\ s \in SaoType /\ s.who \in Objects /\ s.at \in ObjectBlocks /\ NoBlock \notin ObjectBlocks
      /\ \A b \in ObjectBlocks : mapblock[b].active[i] # NoObject => s.static = b
  BY <1>1, InstanceIs, ActiveObjectsAssumption
<1>3. /\ s.static \in ObjectBlocks => old = mapblock[s.static].active[i]
      /\ s.static = NoBlock => old = NoObject
  <2>1. CASE s.static \in ObjectBlocks /\ CanLoad(mapblock, s.static)
    BY <1>1, <1>2, <2>1, EmergedIs DEF Same
  <2>2. CASE s.static \in ObjectBlocks /\ ~CanLoad(mapblock, s.static)
    <3>1. mapblock[s.static].active = NoneIn
      BY <1>1, <2>2, BlockIs DEF CanLoad
    <3>2. QED
      BY <2>2, <3>1 DEF NoneIn
  <2>3. CASE s.static = NoBlock
    BY <2>3, <1>2
  <2>4. QED
    BY <2>1, <2>2, <2>3, <1>2 DEF SaoType
<1>4. old = NoObject <=> NotEntered(mapblock, i)
  <2>1. s.static \in ObjectBlocks \/ s.static = NoBlock
    BY <1>2 DEF SaoType
  <2> HIDE DEF s, old
  <2>2. QED
    BY <1>2, <1>3, <2>1 DEF NotEntered
<1>5. PICK changed \in BOOLEAN :
        LET write  == changed \/ s.static # s.at
            blocks == StaticDeleted(mapblock, s, i, write)
        IN  /\ old = NoObject /\ s.static # NoBlock => changed
            /\ IF Full(blocks, s.at)
               THEN /\ Keep(Emerged(blocks, s.at))
                    /\ sao' = [sao EXCEPT ![i] = NoSao]
                    /\ fate' = [fate EXCEPT ![s.who] = IF @ = "living" THEN "lost"
                                            ELSE IF @ = "removed" /\ ~write THEN "undead"
                                            ELSE @]
                    /\ Done(i)
               ELSE /\ Keep(StaticSaved(blocks, s.at, id, s.who, write))
                    /\ sao' = [sao EXCEPT ![i] =
                                 IF pending
                                 THEN [@ EXCEPT !.static = s.at, !.deactivation = TRUE]
                                 ELSE NoSao]
                    /\ fate' = [fate EXCEPT ![s.who] = IF @ = "removed" THEN "undead"
                                            ELSE IF s.deactivation /\ old = NoObject
                                            THEN "doubled" ELSE @]
                    /\ IF IdIsActive(blocks, s.at, id) THEN Fatal ELSE Done(i)
  BY Zenon DEF Deactivate
<1> DEFINE w == changed \/ s.static # s.at
           m == StaticDeleted(mapblock, s, i, w)
<1>6. /\ Memory(m) /\ Changed(mapblock, database, m, i, s.who, NoBlock, NoBlock)
      /\ w => \A b \in ObjectBlocks : mapblock[b].active[i] # NoObject => ~OnDisk(m, b)
  BY <1>1, <1>2, DeletedIs
<1>7. NotEntered(m, i) /\ w \in BOOLEAN
  BY <1>2, <1>6 DEF NotEntered, Changed
<1>8. ~w => s.static = s.at /\ mapblock[s.at].active[i] # NoObject
  <2>1. ~w => s.static = s.at /\ old # NoObject
    BY <1>2, <1>5
  <2>2. QED
    BY <1>2, <1>3, <2>1
<1>9. CASE Full(m, s.at)
  <2> DEFINE r == Emerged(m, s.at)
  <2>1. /\ Keep(r) /\ sao' = [sao EXCEPT ![i] = NoSao] /\ Done(i)
        /\ fate' = [fate EXCEPT ![s.who] = IF @ = "living" THEN "lost"
                                           ELSE IF @ = "removed" /\ ~w THEN "undead" ELSE @]
    BY <1>5, <1>9
  <2>2. Memory(r) /\ Same(m, database, r) /\ mapblock' = r
    BY <1>1, <1>2, <1>6, <2>1, EmergedIs DEF Keep
  <2>3. Changed(mapblock, database, r, i, s.who, NoBlock, NoBlock)
    BY <1>1, <1>6, <2>2, ChangedSame
  <2>4. w => \A b \in ObjectBlocks : b = NoBlock \/ b = NoBlock \/ mapblock[b].active[i] # NoObject
               => ~OnDisk(mapblock', b)
    BY <1>2, <1>6, <2>2 DEF Same
  <2>5. Deactivated(i, s, NoBlock, NoBlock, w)
    <3> HIDE DEF r, m, w, s
    <3>1. QED
      BY <1>8, <2>1, <2>2, <2>3, <2>4 DEF Deactivated, Leaves
  <2>6. Memory(mapblock') /\ NoBlock \in SpotBlocks
    BY <2>2 DEF SpotBlocks
  <2> HIDE DEF r, m, w
  <2>7. QED
    BY <1>1, <1>7, <2>1, <2>5, <2>6 DEF Done
<1>10. CASE ~Full(m, s.at)
  <2> DEFINE r == StaticSaved(m, s.at, id, s.who, w)
             c == IF pending THEN s.at ELSE NoBlock
             c2 == IF pending THEN NoBlock ELSE s.at
  <2>1. /\ Keep(r)
        /\ sao' = [sao EXCEPT ![i] = IF pending THEN [@ EXCEPT !.static = s.at,
                                                               !.deactivation = TRUE]
                                     ELSE NoSao]
        /\ fate' = [fate EXCEPT ![s.who] = IF @ = "removed" THEN "undead"
                                           ELSE IF s.deactivation /\ old = NoObject
                                                THEN "doubled" ELSE @]
        /\ IF IdIsActive(m, s.at, id) THEN Fatal ELSE Done(i)
    BY <1>5, <1>10
  <2>2. Memory(r) /\ Changed(m, database, r, i, s.who, c, c2) /\ (w => ~OnDisk(r, s.at))
    BY <1>1, <1>2, <1>6, <1>7, SavedIs
  <2>3. Changed(mapblock, database, r, i, s.who, c, c2)
    <3> HIDE DEF m, r, c, c2, w
    <3>1. QED
      BY <1>1, <1>6, <2>2, ChangedTwice
  <2>4. ~IdIsActive(m, s.at, id)
    <3>1. Same(m, database, Emerged(m, s.at))
      BY <1>1, <1>2, <1>6, EmergedIs
    <3>2. QED
      BY <1>2, <1>7, <3>1 DEF IdIsActive, Same, NotEntered
  <2>5. mapblock' = r /\ c \in ObjectBlocks \union {NoBlock} /\ c2 \in ObjectBlocks \union {NoBlock}
    BY <1>2, <2>1 DEF Keep
  <2>6. w => \A b \in ObjectBlocks :
               b = c \/ b = c2 \/ mapblock[b].active[i] # NoObject => ~OnDisk(mapblock', b)
    <3>1. w => \A b \in ObjectBlocks : mapblock[b].active[i] # NoObject => ~OnDisk(r, b)
      BY <1>6, <2>2 DEF Changed
    <3>2. QED
      BY <1>2, <2>2, <2>5, <3>1
  <2>7. fate' = [fate EXCEPT ![s.who] = IF @ = "removed" THEN "undead"
                                        ELSE IF s.deactivation /\ NotEntered(mapblock, i)
                                             THEN "doubled" ELSE @]
    BY <2>1, <1>4
  <2>8. \/ c = s.at /\ c2 = NoBlock /\ ~loop.force /\ Waits(i, s)
        \/ c = NoBlock /\ c2 = s.at /\ Leaves(i)
    BY <2>1 DEF Waits, Leaves
  <2>9. Done(i)
    BY <2>1, <2>4
  <2>10. Memory(mapblock') /\ Changed(mapblock, database, mapblock', i, s.who, c, c2)
    BY <2>2, <2>3, <2>5
  <2>11. Deactivated(i, s, c, c2, w)
    <3> HIDE DEF r, m, w, s, c, c2, old, id, pending
    <3>1. QED
      BY <1>8, <2>6, <2>7, <2>8, <2>10 DEF Deactivated
  <2>12. c \in SpotBlocks /\ c2 \in SpotBlocks
    BY <2>5 DEF SpotBlocks
  <2> HIDE DEF r, m, w, c, c2, old, id, pending
  <2>13. QED
    BY <1>1, <1>7, <2>9, <2>10, <2>11, <2>12 DEF Done
<1>11. QED
  BY <1>9, <1>10

(* activateObject.                                                         *)
LEMMA ActivateIs ==
  ASSUME ObjectsInv, NEW b \in ObjectBlocks, NEW o \in Objects, activateObject(b, o)
  PROVE  /\ loop.op = "activate" /\ loop.current = b /\ loop' = loop
         /\ mapblock[b].inMemory /\ mapblock[b].stored[o] > 0
         /\ Memory(mapblock')
         /\ \A c \in ObjectBlocks : c # b => mapblock'[c] = mapblock[c]
         /\ mapblock'[b].inMemory /\ mapblock'[b].stamp = mapblock[b].stamp
         /\ mapblock'[b].modified = mapblock[b].modified
         /\ mapblock'[b].stored = [mapblock[b].stored EXCEPT ![o] = @ - 1]
         /\ \/ /\ mapblock'[b].active = mapblock[b].active /\ sao' = sao
               /\ fate' = [fate EXCEPT ![o] = IF @ = "living" THEN "lost" ELSE @]
            \/ \E i \in ObjectIds :
                 /\ i \notin Instances
                 /\ sao' = [sao EXCEPT ![i] = Registered(o, b)]
                 /\ mapblock'[b].active = [mapblock[b].active EXCEPT ![i] = o]
                 /\ fate' = fate
<1> DEFINE m == mapblock[b]
           n == [m EXCEPT !.stored[o] = @ - 1]
<1>1. /\ loop.current = b /\ loop' = loop /\ o \in Stored(b) /\ loop.op = "activate"
      /\ m.inMemory /\ Memory(mapblock)
  BY ActiveObjectsAssumption DEF ObjectsInv, LoopInv, activateObject
<1>2. /\ m \in BlockType /\ m.stored \in Counts /\ m.active \in Entries
      /\ mapblock \in [ObjectBlocks -> BlockType] /\ m.stored[o] > 0
  BY <1>1, BlockIs DEF Memory, Stored
<1>3. m.stored[o] \in Nat /\ m.stored[o] - 1 \in Nat
  BY <1>2 DEF Counts
<1>4. [m.stored EXCEPT ![o] = @ - 1] \in Counts
  BY <1>2, <1>3 DEF Counts
<1>5. /\ n \in BlockType /\ n.inMemory /\ n.stamp = m.stamp /\ n.modified = m.modified
      /\ n.active = m.active /\ n.stored = [m.stored EXCEPT ![o] = @ - 1]
  BY <1>1, <1>2, <1>4 DEF BlockType
<1>6. CASE Instances = ObjectIds
  <2>1. /\ mapblock' = [mapblock EXCEPT ![b].stored[o] = @ - 1] /\ sao' = sao
        /\ fate' = [fate EXCEPT ![o] = IF @ = "living" THEN "lost" ELSE @]
    BY <1>6 DEF activateObject
  <2>2. mapblock' = [mapblock EXCEPT ![b] = n]
    BY <1>2, <2>1 DEF BlockType
  <2> HIDE DEF n
  <2>3. /\ mapblock' \in [ObjectBlocks -> BlockType] /\ mapblock'[b] = n
        /\ \A c \in ObjectBlocks : c # b => mapblock'[c] = mapblock[c]
    BY <1>2, <1>5, <2>2
  <2>4. Memory(mapblock')
    BY <1>1, <1>5, <2>3 DEF Memory
  <2>5. QED
    BY <1>1, <1>2, <1>5, <2>1, <2>3, <2>4
<1>7. CASE Instances # ObjectIds
  <2>1. PICK i \in ObjectIds \ Instances :
          /\ sao' = [sao EXCEPT ![i] = Registered(o, b)]
          /\ mapblock' = [[mapblock EXCEPT ![b].stored[o] = @ - 1] EXCEPT ![b].active[i] = o]
          /\ fate' = fate
    BY <1>7, Zenon DEF activateObject
  <2> DEFINE p == [n EXCEPT !.active[i] = o]
  <2>2. [m.active EXCEPT ![i] = o] \in Entries
    BY <1>2 DEF Entries
  <2>3. /\ p \in BlockType /\ p.inMemory /\ p.stamp = m.stamp /\ p.modified = m.modified
        /\ p.active = [m.active EXCEPT ![i] = o] /\ p.stored = n.stored
    <3> HIDE DEF n, m
    <3>1. QED
      BY <1>1, <1>2, <1>5, <2>2 DEF BlockType
  <2>4. mapblock' = [mapblock EXCEPT ![b] = p]
    BY <1>2, <2>1 DEF BlockType
  <2> HIDE DEF n, p
  <2>5. /\ mapblock' \in [ObjectBlocks -> BlockType] /\ mapblock'[b] = p
        /\ \A c \in ObjectBlocks : c # b => mapblock'[c] = mapblock[c]
    BY <1>2, <2>3, <2>4
  <2>6. Memory(mapblock')
    BY <1>1, <2>3, <2>5 DEF Memory
  <2>7. QED
    BY <1>1, <1>2, <1>5, <2>1, <2>3, <2>5, <2>6
<1>8. QED
  BY <1>6, <1>7

(* removeRemovedObject.                                                    *)
LEMMA RemoveIs ==
  ASSUME ObjectsInv, NEW i \in ObjectIds, removeRemovedObject(i)
  PROVE  LET s == sao[i] IN
         /\ i \in Instances /\ i \in loop.ids /\ loop.op = "remove" /\ Gone(i)
         /\ loop' = [loop EXCEPT !.ids = @ \ {i}]
         /\ Memory(mapblock')
         /\ \/ /\ s.removal
               /\ Changed(mapblock, database, mapblock', i, s.who, NoBlock, NoBlock)
               /\ \A b \in ObjectBlocks : mapblock[b].active[i] # NoObject => ~OnDisk(mapblock', b)
               /\ \/ ~s.known /\ sao' = [sao EXCEPT ![i] = NoSao]
                  \/ \E st \in ObjectBlocks \union {NoBlock} :
                       sao' = [sao EXCEPT ![i].static = st]
            \/ ~s.removal /\ s.known /\ mapblock' = mapblock /\ sao' = sao
            \/ /\ ~s.removal /\ sao' = [sao EXCEPT ![i] = NoSao] /\ NotEntered(mapblock, i)
               /\ Same(mapblock, database, mapblock')
            \/ /\ ~s.removal /\ sao' = [sao EXCEPT ![i] = NoSao]
               /\ s.static \in ObjectBlocks /\ mapblock[s.static].active[i] = s.who
               /\ Changed(mapblock, database, mapblock', i, s.who, NoBlock, s.static)
               /\ ~OnDisk(mapblock', s.static)
<1> DEFINE s       == sao[i]
           d       == s.static
           deleted == StaticDeleted(mapblock, s, i, TRUE)
           found   == /\ ~s.removal /\ d # NoBlock /\ CanLoad(mapblock, d)
           loaded  == Emerged(mapblock, d)
<1>1. /\ Memory(mapblock) /\ Disk(database) /\ i \in loop.ids /\ loop.op = "remove" /\ Gone(i)
      /\ i \in Instances /\ loop' = [loop EXCEPT !.ids = @ \ {i}]
  BY DEF ObjectsInv, LoopInv, removeRemovedObject, Done
<1>2. /\ s \in SaoType /\ s.who \in Objects /\ s.at \in ObjectBlocks /\ NoBlock \notin ObjectBlocks
      /\ \A b \in ObjectBlocks : mapblock[b].active[i] # NoObject => d = b
  BY <1>1, InstanceIs, ActiveObjectsAssumption
<1>3. /\ mapblock' = IF s.removal THEN deleted
                     ELSE IF s.known \/ ~found THEN mapblock
                     ELSE IF loaded[d].active[i] = NoObject THEN loaded
                     ELSE [loaded EXCEPT
                             ![d].active[i] = NoObject,
                             ![d].stored[loaded[d].active[i]] = @ + 1,
                             ![d].modified = TRUE]
      /\ sao' = [sao EXCEPT ![i] = IF ~s.known THEN NoSao
                                   ELSE IF s.removal THEN [s EXCEPT !.static = StaticLeft(mapblock, s)]
                                   ELSE s]
  BY DEF removeRemovedObject, Keep
<1>4. CASE s.removal
  <2>1. /\ Memory(mapblock') /\ Changed(mapblock, database, mapblock', i, s.who, NoBlock, NoBlock)
        /\ \A b \in ObjectBlocks : mapblock[b].active[i] # NoObject => ~OnDisk(mapblock', b)
    BY <1>1, <1>2, <1>3, <1>4, DeletedIs
  <2>2. StaticLeft(mapblock, s) \in ObjectBlocks \union {NoBlock}
    BY <1>2 DEF StaticLeft, SaoType
  <2>3. \/ ~s.known /\ sao' = [sao EXCEPT ![i] = NoSao]
        \/ \E st \in ObjectBlocks \union {NoBlock} : sao' = [sao EXCEPT ![i].static = st]
    BY <1>3, <1>4, <2>2
  <2>4. QED
    BY <1>1, <1>4, <2>1, <2>3
<1>5. CASE ~s.removal /\ s.known
  <2>1. mapblock' = mapblock /\ sao' = sao
    BY <1>3, <1>5 DEF ObjectsInv, Instanced
  <2>2. QED
    BY <1>1, <1>5, <2>1
<1>6. CASE ~s.removal /\ ~s.known /\ ~found
  <2>1. d \in ObjectBlocks => ~mapblock[d].inMemory
    BY <1>2, <1>6 DEF CanLoad
  <2>2. d \in ObjectBlocks => mapblock[d].active[i] = NoObject
    BY <1>1, <2>1, BlockIs DEF NoneIn
  <2>3. NotEntered(mapblock, i)
    BY <1>2, <2>2 DEF NotEntered
  <2>4. mapblock' = mapblock /\ sao' = [sao EXCEPT ![i] = NoSao]
    BY <1>3, <1>6
  <2>5. QED
    BY <1>1, <1>6, <2>3, <2>4 DEF Same
<1>7. CASE ~s.removal /\ ~s.known /\ found
  <2>1. d \in ObjectBlocks
    BY <1>2, <1>7 DEF SaoType
  <2>2. Memory(loaded) /\ loaded[d].inMemory /\ Same(mapblock, database, loaded)
    BY <1>1, <2>1, EmergedIs
  <2>3. loaded[d].active[i] = mapblock[d].active[i]
    BY <2>1, <2>2 DEF Same
  <2>4. sao' = [sao EXCEPT ![i] = NoSao]
    BY <1>3, <1>7
  <2>5. CASE mapblock[d].active[i] = NoObject
    <3>1. NotEntered(mapblock, i)
      BY <1>2, <2>1, <2>5 DEF NotEntered
    <3>2. mapblock' = loaded
      BY <1>3, <1>7, <2>3, <2>5
    <3>3. QED
      BY <1>1, <1>7, <2>2, <2>4, <3>1, <3>2
  <2>6. CASE mapblock[d].active[i] # NoObject
    <3>1. mapblock[d].active[i] = s.who
      BY <2>1, <2>6 DEF ObjectsInv, Entered
    <3> DEFINE m == StaticDeleted(mapblock, s, i, TRUE)
               r == StaticSaved(m, d, NoId, s.who, TRUE)
    <3>2. Memory(m) /\ Changed(mapblock, database, m, i, s.who, NoBlock, NoBlock)
      BY <1>1, <1>2, DeletedIs
    <3>3. NotEntered(m, i)
      BY <1>2, <3>2 DEF NotEntered, Changed
    <3>4. Memory(r) /\ Changed(m, database, r, i, s.who, NoBlock, d) /\ ~OnDisk(r, d)
      BY <1>1, <1>2, <2>1, <3>2, <3>3, SavedIs
    <3>5. Changed(mapblock, database, r, i, s.who, NoBlock, d)
      <4> HIDE DEF m, r
      <4>1. QED
        BY <1>1, <3>2, <3>4, ChangedTwice
    <3>6. mapblock' = r
      <4>1. mapblock' = [loaded EXCEPT ![d].active[i] = NoObject, ![d].stored[s.who] = @ + 1,
                                       ![d].modified = TRUE]
        BY <1>3, <1>7, <2>3, <2>6, <3>1
      <4>2. m = [loaded EXCEPT ![d].active[i] = NoObject, ![d].modified = @ \/ TRUE]
        BY <1>7 DEF StaticDeleted
      <4> HIDE DEF loaded
      <4>3. loaded \in [ObjectBlocks -> BlockType] /\ loaded[d] \in BlockType
        BY <2>1, <2>2 DEF Memory
      <4>4. m[d].inMemory
        <5> HIDE DEF m
        <5>1. m[d] = [loaded[d] EXCEPT !.active[i] = NoObject, !.modified = @ \/ TRUE]
          BY <2>1, <4>2, <4>3
        <5>2. QED
          BY <2>2, <4>3, <5>1 DEF BlockType
      <4>5. Emerged(m, d) = m
        BY <4>4 DEF Emerged
      <4>6. r = [[m EXCEPT ![d].modified = @ \/ TRUE] EXCEPT ![d].stored[s.who] = @ + 1]
        BY <4>5 DEF StaticSaved
      <4> HIDE DEF m, r
      <4> DEFINE one == [loaded[d] EXCEPT !.active[i] = NoObject, !.modified = @ \/ TRUE]
                 two == [one EXCEPT !.modified = @ \/ TRUE, !.stored[s.who] = @ + 1]
                 all == [loaded[d] EXCEPT !.active[i] = NoObject, !.stored[s.who] = @ + 1,
                                          !.modified = TRUE]
      <4>7. mapblock' = [loaded EXCEPT ![d] = all]
        BY <2>1, <4>1, <4>3 DEF BlockType
      <4>8. m = [loaded EXCEPT ![d] = one]
        BY <2>1, <4>2, <4>3 DEF BlockType
      <4>9. one.modified = TRUE /\ all = two
        BY <4>3 DEF BlockType
      <4>10. r = [m EXCEPT ![d] = two]
        <5> HIDE DEF one
        <5>1. m[d] = one /\ m \in [ObjectBlocks -> {m[b] : b \in ObjectBlocks}]
          BY <2>1, <4>3, <4>8
        <5>2. QED
          BY <2>1, <4>6, <5>1
      <4> HIDE DEF one, two, all
      <4>11. QED
        BY <2>1, <4>3, <4>7, <4>8, <4>9, <4>10
    <3> HIDE DEF m, r
    <3>7. QED
      BY <1>1, <1>7, <2>1, <2>4, <3>1, <3>4, <3>5, <3>6
  <2>7. QED
    BY <2>5, <2>6
<1>8. QED
  BY <1>4, <1>5, <1>6, <1>7

-----------------------------------------------------------------------------
(* ObjectsInv is kept: setStaticForActiveObjectsInBlock and                *)
(* StaticObjectList::insert never meet what they complain of.              *)
LEMMA EnteredChanged ==
  ASSUME NEW mb, NEW db, NEW r, NEW s, NEW z, NEW i \in ObjectIds, NEW o, NEW c, NEW c2,
         Entered(mb, s), Changed(mb, db, r, i, o, c, c2),
         \A j \in ObjectIds : j # i => z[j] = s[j],
         c \in ObjectBlocks => z[i].who = o /\ z[i].static = c
  PROVE  Entered(r, z)
  BY DEF Entered, Changed

LEMMA EnteredSame ==
  ASSUME NEW mb, NEW db, NEW r, NEW s, NEW z, Entered(mb, s), Same(mb, db, r),
         \A j \in ObjectIds : z[j] = s[j] \/ NotEntered(mb, j)
  PROVE  Entered(r, z)
  BY DEF Entered, Same, NotEntered

LEMMA LoopGoesOn ==
  ASSUME ObjectsInv, NEW i \in ObjectIds, loop.op \in {"deactivate", "remove"},
         loop' = [loop EXCEPT !.ids = @ \ {i}], scene' = scene, Instanced(sao'),
         \A j \in ObjectIds : j # i => sao'[j] = sao[j], loop.force => sao'[i] = NoSao
  PROVE  LoopInv'
<1>1. LoopInv /\ loop \in LoopType
  BY DEF ObjectsInv, LoopInv
<1>2. /\ loop'.op = loop.op /\ loop'.ids = loop.ids \ {i} /\ loop'.blocks = loop.blocks
      /\ loop'.force = loop.force /\ loop'.removed = loop.removed /\ loop'.current = loop.current
      /\ loop' \in LoopType
  BY <1>1 DEF LoopType
<1>3. \A j \in ObjectIds : j # i => (j \in Instances' <=> j \in Instances)
  BY DEF Instances
<1>4. loop.force => i \notin Instances'
  BY DEF Instances, NoSao
<1>5. loop'.ids \subseteq Instances' /\ (loop'.force => Instances' \subseteq loop'.ids)
  BY <1>1, <1>2, <1>3, <1>4 DEF LoopInv, LoopType, Instances
<1>6. loop'.op = "remove" => \A j \in loop'.ids : Gone(j)'
  BY <1>1, <1>2 DEF LoopInv, LoopType, Gone
<1>7. QED
  BY <1>1, <1>2, <1>5, <1>6 DEF LoopInv

LEMMA SaoMoves ==
  ASSUME Instanced(sao), NEW i \in ObjectIds, NEW s \in SaoType, sao' = [sao EXCEPT ![i] = s],
         s = NoSao \/ (s.who \in Objects /\ s.at \in ObjectBlocks)
  PROVE  /\ Instanced(sao') /\ sao'[i] = s /\ \A j \in ObjectIds : j # i => sao'[j] = sao[j]
  BY DEF Instanced

(* The numbers and sets beside the blocks.                                 *)
Beside ==
  /\ scene \in Scenes /\ ActiveBlocks \subseteq ObjectBlocks /\ recent \subseteq ObjectBlocks
  /\ m_game_time \in 0 .. MaxTime /\ m_last_clear_objects_time \in 0 .. m_game_time
  /\ fate \in [Objects -> Fates]

LEMMA ObjectsInvIs ==
  ObjectsInv <=> /\ Memory(mapblock) /\ Disk(database) /\ Instanced(sao)
                 /\ Entered(mapblock, sao) /\ LoopInv /\ Beside
  BY DEF ObjectsInv, Beside

LEMMA KeepIs ==
  ASSUME Beside, NEW mb, Keep(mb)
  PROVE  recent' \subseteq ObjectBlocks /\ mapblock' = mb
  BY DEF Beside, Keep, Loaded

LEMMA Add_Inv ==
  ASSUME ObjectsInv, NEW o \in Objects, NEW b \in ObjectBlocks, addActiveObject(o, b)
  PROVE  ObjectsInv'
<1>1. PICK i \in ObjectIds :
           /\ i \notin Instances /\ sao' = [sao EXCEPT ![i] = Registered(o, b)]
           /\ Memory(mapblock') /\ Changed(mapblock, database, mapblock', i, o, b, NoBlock)
           /\ ~OnDisk(mapblock', b)
  BY AddIs
<1>2. Registered(o, b) \in SaoType /\ Registered(o, b).who = o /\ Registered(o, b).at = b
      /\ Registered(o, b).static = b
  BY TypesOfNothing DEF Registered, SaoType
<1>3. /\ Instanced(sao') /\ sao'[i] = Registered(o, b)
      /\ \A j \in ObjectIds : j # i => sao'[j] = sao[j]
  BY <1>1, <1>2, SaoMoves DEF ObjectsInv
<1>4. Entered(mapblock', sao')
  BY <1>1, <1>2, <1>3, EnteredChanged DEF ObjectsInv
<1>5. loop = NoLoop /\ loop' = loop /\ scene' = scene /\ LoopInv
  BY DEF addActiveObject, Quiet, clock, ObjectsInv
<1>6. LoopInv'
  BY <1>5 DEF LoopInv, NoLoop
<1>7. Beside'
  <2>1. recent' \subseteq ObjectBlocks
    BY KeepIs, ObjectsInvIs DEF addActiveObject
  <2>2. fate' \in [Objects -> Fates]
    BY DEF addActiveObject, ObjectsInv, Fates
  <2>3. QED
    BY <2>1, <2>2, ObjectsInvIs DEF addActiveObject, clock, Beside
<1>8. Disk(database')
  BY DEF addActiveObject, ObjectsInv, Disk
<1>9. QED
  BY <1>1, <1>3, <1>4, <1>6, <1>7, <1>8, ObjectsInvIs DEF ObjectsInv, Beside

LEMMA Resave_Inv ==
  ASSUME ObjectsInv, NEW i \in ObjectIds, ResaveStatic(i)
  PROVE  ObjectsInv'
<1>1. /\ i \in Instances /\ i \in loop.ids /\ loop.op = "deactivate" /\ ~loop.force
      /\ loop' = [loop EXCEPT !.ids = @ \ {i}] /\ Memory(mapblock')
  BY ResaveIs
<1>2. PICK c \in SpotBlocks : \E st \in SpotBlocks : Resaved(i, sao[i], c, st)
  BY ResaveIs
<1>21. PICK st \in SpotBlocks : Resaved(i, sao[i], c, st)
  BY <1>2
<1>22. /\ c = st \/ c = NoBlock
       /\ sao' = [sao EXCEPT ![i].static = st]
       /\ Changed(mapblock, database, mapblock', i, sao[i].who, c, NoBlock)
  BY <1>21 DEF Resaved
<1> DEFINE s == [sao[i] EXCEPT !.static = st]
<1>3. /\ s \in SaoType /\ s.who = sao[i].who /\ s.at = sao[i].at /\ s.static = st
      /\ s.who \in Objects /\ s.at \in ObjectBlocks
  BY <1>1, InstanceIs DEF SaoType, SpotBlocks
<1>4. sao' = [sao EXCEPT ![i] = s]
  BY <1>22
<1> HIDE DEF s
<1>5. Instanced(sao') /\ sao'[i] = s /\ \A j \in ObjectIds : j # i => sao'[j] = sao[j]
  BY <1>3, <1>4, SaoMoves DEF ObjectsInv
<1>6. Entered(mapblock', sao')
  <2>1. c \in ObjectBlocks => sao'[i].who = sao[i].who /\ sao'[i].static = c
    BY <1>22, <1>3, <1>5, ActiveObjectsAssumption
  <2>2. Entered(mapblock, sao)
    BY DEF ObjectsInv
  <2>3. Changed(mapblock, database, mapblock', i, sao[i].who, c, NoBlock)
    BY <1>22
  <2>4. \A j \in ObjectIds : j # i => sao'[j] = sao[j]
    BY <1>5
  <2>5. QED
    BY <2>1, <2>2, <2>3, <2>4, EnteredChanged
<1>7. scene' = scene /\ Disk(database') /\ Beside'
  <2>1. recent' \subseteq ObjectBlocks
    BY KeepIs, ObjectsInvIs DEF ResaveStatic
  <2>2. QED
    BY <2>1, ObjectsInvIs DEF ResaveStatic, clock, Beside, Disk
<1>8. LoopInv'
  BY <1>1, <1>5, <1>7, LoopGoesOn
<1>9. QED
  BY <1>1, <1>5, <1>6, <1>7, <1>8, ObjectsInvIs DEF ObjectsInv, Beside

LEMMA Deactivate_Inv ==
  ASSUME ObjectsInv, NEW i \in ObjectIds, Deactivate(i)
  PROVE  ObjectsInv'
<1>1. /\ i \in Instances /\ i \in loop.ids /\ loop.op = "deactivate"
      /\ loop' = [loop EXCEPT !.ids = @ \ {i}] /\ Memory(mapblock')
  BY DeactivateIs
<1>2. PICK c \in SpotBlocks : \E c2 \in SpotBlocks : \E w \in BOOLEAN :
         Deactivated(i, sao[i], c, c2, w)
  BY DeactivateIs
<1>21. PICK c2 \in SpotBlocks : \E w \in BOOLEAN : Deactivated(i, sao[i], c, c2, w)
  BY <1>2
<1>22. PICK w \in BOOLEAN : Deactivated(i, sao[i], c, c2, w)
  BY <1>21
<1>23. /\ Changed(mapblock, database, mapblock', i, sao[i].who, c, c2)
       /\ (c = NoBlock /\ Leaves(i)) \/ (c = sao[i].at /\ ~loop.force /\ Waits(i, sao[i]))
  BY <1>22 DEF Deactivated
<1>24. fate' \in [Objects -> Fates]
  <2>1. fate \in [Objects -> Fates]
    BY DEF ObjectsInv
  <2>2. QED
    BY <1>22, <2>1 DEF Deactivated, Fates
<1>3. PICK s \in SaoType : /\ sao' = [sao EXCEPT ![i] = s]
                           /\ s = NoSao \/ (s.who \in Objects /\ s.at \in ObjectBlocks)
                           /\ loop.force => s = NoSao
                           /\ c \in ObjectBlocks => s.who = sao[i].who /\ s.static = c
  <2>1. CASE c = NoBlock /\ Leaves(i)
    BY <2>1, TypesOfNothing, ActiveObjectsAssumption DEF Leaves
  <2>2. CASE c = sao[i].at /\ ~loop.force /\ Waits(i, sao[i])
    <3> DEFINE s == [sao[i] EXCEPT !.static = sao[i].at, !.deactivation = TRUE]
    <3>1. /\ s \in SaoType /\ s.who = sao[i].who /\ s.at = sao[i].at /\ s.static = sao[i].at
          /\ s.who \in Objects /\ s.at \in ObjectBlocks
      BY <1>1, InstanceIs DEF SaoType
    <3>2. sao' = [sao EXCEPT ![i] = s]
      BY <2>2 DEF Waits
    <3> HIDE DEF s
    <3>3. QED
      BY <2>2, <3>1, <3>2
  <2>3. QED
    BY <1>23, <2>1, <2>2
<1>4. Instanced(sao') /\ sao'[i] = s /\ \A j \in ObjectIds : j # i => sao'[j] = sao[j]
  BY <1>3, SaoMoves DEF ObjectsInv
<1>5. Entered(mapblock', sao')
  <2>1. Entered(mapblock, sao) /\ (c \in ObjectBlocks => sao'[i].who = sao[i].who /\ sao'[i].static = c)
    BY <1>3, <1>4 DEF ObjectsInv
  <2>2. QED
    BY <1>23, <1>4, <2>1, EnteredChanged
<1>6. scene' = scene /\ Disk(database') /\ Beside'
  <2>1. recent' \subseteq ObjectBlocks
    BY KeepIs, ObjectsInvIs DEF Deactivate
  <2>2. QED
    BY <1>24, <2>1, ObjectsInvIs DEF Deactivate, clock, Beside, Disk
<1>7. LoopInv'
  BY <1>1, <1>3, <1>4, <1>6, LoopGoesOn
<1>8. QED
  BY <1>1, <1>4, <1>5, <1>6, <1>7, ObjectsInvIs DEF ObjectsInv, Beside

LEMMA EnteredFewer ==
  ASSUME NEW mb, NEW r, NEW s, NEW z, Entered(mb, s),
         \A b \in ObjectBlocks, j \in ObjectIds : r[b].active[j] # NoObject =>
            /\ r[b].active[j] = mb[b].active[j]
            /\ z[j].who = s[j].who /\ z[j].static = s[j].static
  PROVE  Entered(r, z)
  BY DEF Entered

Replaced(mb, b, m, r) == r[b] = m /\ \A c \in ObjectBlocks : c # b => r[c] = mb[c]

LEMMA OneBlockIs ==
  ASSUME NEW mb, Memory(mb), NEW b \in ObjectBlocks, NEW m \in BlockType,
         m.inMemory \/ m = Unloaded, NEW r, r = [mb EXCEPT ![b] = m]
  PROVE  Memory(r) /\ Replaced(mb, b, m, r)
  BY DEF Memory, Replaced

LEMMA UnloadedIs ==
  /\ Unloaded \in BlockType /\ ~Unloaded.inMemory /\ ~Unloaded.modified
  /\ \A i \in ObjectIds : Unloaded.active[i] = NoObject
  /\ \A o \in Objects : Unloaded.stored[o] = 0
  /\ Missing \in DiskType /\ ~Missing.exists /\ \A o \in Objects : Missing.objects[o] = 0
  BY TypesOfNothing DEF Unloaded, NoneIn, Nothing, Missing

LEMMA NoLoopIs ==
  /\ NoLoop \in LoopType /\ NoLoop.op = "none" /\ NoLoop.ids = {} /\ NoLoop.blocks = {}
  /\ NoLoop.force = FALSE /\ NoLoop.removed = {} /\ NoLoop.current = NoBlock
  BY DEF NoLoop, LoopType

(* What is written of a block: of each object what it stores and what it   *)
(* has entered.                                                            *)
LEMMA SerializedIs ==
  ASSUME NEW m \in BlockType
  PROVE  /\ Serialized(m) \in DiskType /\ Serialized(m).exists /\ Serialized(m).stamp = m.stamp
         /\ \A o \in Objects :
              /\ (\A i \in ObjectIds : m.active[i] # o) => Serialized(m).objects[o] = m.stored[o]
              /\ \A i \in ObjectIds :
                   m.active[i] = o /\ (\A j \in ObjectIds : m.active[j] = o => j = i)
                     => Serialized(m).objects[o] = m.stored[o] + 1
<1> DEFINE At(o) == {i \in ObjectIds : m.active[i] = o}
<1>1. m.stored \in Counts /\ m.stamp \in Stamps
  BY DEF BlockType
<1>2. \A o \in Objects : Cardinality(At(o)) \in Nat
  <2>1. SUFFICES ASSUME NEW o \in Objects PROVE Cardinality(At(o)) \in Nat
    OBVIOUS
  <2>2. IsFiniteSet(At(o))
    BY ActiveObjectsAssumption, FS_Subset
  <2>3. QED
    BY <2>2, FS_CardinalityType
<1>3. \A o \in Objects : Serialized(m).objects[o] = m.stored[o] + Cardinality(At(o))
  BY DEF Serialized
<1>4. [o \in Objects |-> m.stored[o] + Cardinality(At(o))] \in Counts
  BY <1>1, <1>2 DEF Counts
<1>5. Serialized(m) \in DiskType /\ Serialized(m).exists /\ Serialized(m).stamp = m.stamp
  BY <1>1, <1>4 DEF Serialized, DiskType
<1>6. ASSUME NEW o \in Objects, \A i \in ObjectIds : m.active[i] # o
      PROVE  Serialized(m).objects[o] = m.stored[o]
  <2>1. At(o) = {}
    BY <1>6
  <2>2. Cardinality(At(o)) = 0
    BY <2>1, FS_EmptySet
  <2>3. m.stored[o] \in Nat
    BY <1>1 DEF Counts
  <2>4. QED
    BY <1>3, <2>2, <2>3
<1>7. ASSUME NEW o \in Objects, NEW i \in ObjectIds,
             m.active[i] = o, \A j \in ObjectIds : m.active[j] = o => j = i
      PROVE  Serialized(m).objects[o] = m.stored[o] + 1
  <2>1. At(o) = {i}
    BY <1>7
  <2>2. Cardinality(At(o)) = 1
    BY <2>1, FS_Singleton
  <2>3. QED
    BY <1>3, <2>2
<1>8. QED
  BY <1>5, <1>6, <1>7

LEMMA Stays_Inv ==
  ASSUME ObjectsInv, NEW i \in ObjectIds, StaysActive(i)
  PROVE  ObjectsInv'
<1>1. /\ loop.op = "deactivate" /\ ~loop.force /\ loop' = [loop EXCEPT !.ids = @ \ {i}]
      /\ UNCHANGED <<sao, mapblock, database, ActiveBlocks, recent, scene, m_game_time,
                     m_last_clear_objects_time, fate>>
  BY DEF StaysActive, Deactivating, Done, clock
<1>2. LoopInv'
  BY <1>1, LoopGoesOn DEF ObjectsInv
<1>3. QED
  BY <1>1, <1>2 DEF ObjectsInv, Memory, Disk, Instanced, Entered

LEMMA Manage_Inv ==
  ASSUME ObjectsInv, NEW newlist \in SUBSET ObjectBlocks, ManageActiveBlocks(newlist)
  PROVE  ObjectsInv'
<1>1. /\ UNCHANGED <<sao, mapblock, database, m_last_clear_objects_time, scene, fate>>
      /\ ActiveBlocks' = newlist
      /\ recent' = (ActiveBlocks \union newlist) \intersect {b \in ObjectBlocks : mapblock[b].inMemory}
      /\ m_game_time < MaxTime /\ m_game_time' = m_game_time + 1
  BY DEF ManageActiveBlocks
<1>2. LoopInv'
  <2>1. /\ loop'.op = "deactivate" /\ loop'.ids = Instances /\ loop'.blocks = newlist \ ActiveBlocks
        /\ loop'.removed = ActiveBlocks \ newlist /\ loop'.force = FALSE /\ loop'.current = NoBlock
        /\ loop' \in LoopType
    BY DEF ManageActiveBlocks, NoLoop, LoopType, Instances, ObjectsInv
  <2>2. Instances' = Instances
    BY <1>1 DEF Instances
  <2>3. QED
    BY <2>1, <2>2 DEF LoopInv
<1>3. m_game_time' \in 0 .. MaxTime /\ m_last_clear_objects_time' \in 0 .. m_game_time'
  BY <1>1, ActiveObjectsAssumption DEF ObjectsInv
<1>4. recent' \subseteq ObjectBlocks /\ ActiveBlocks' \subseteq ObjectBlocks
  BY <1>1
<1>5. QED
  BY <1>1, <1>2, <1>3, <1>4 DEF ObjectsInv, Memory, Disk, Instanced, Entered

LEMMA EndDeactivation_Inv ==
  ASSUME ObjectsInv, EndDeactivation
  PROVE  ObjectsInv'
<1>1. /\ UNCHANGED <<sao, database, recent, scene, m_game_time, m_last_clear_objects_time, fate>>
      /\ loop.op = "deactivate"
      /\ mapblock' = [b \in ObjectBlocks |->
                        IF b \in loop.removed /\ mapblock[b].inMemory
                        THEN [mapblock[b] EXCEPT !.stamp = m_game_time, !.modified = TRUE]
                        ELSE mapblock[b]]
  BY DEF EndDeactivation, clock
<1>2. \A b \in ObjectBlocks :
        /\ mapblock'[b] \in BlockType
        /\ mapblock'[b].inMemory = mapblock[b].inMemory /\ mapblock'[b].active = mapblock[b].active
        /\ ~mapblock[b].inMemory => mapblock'[b] = mapblock[b]
  <2>1. SUFFICES ASSUME NEW b \in ObjectBlocks
        PROVE  /\ mapblock'[b] \in BlockType
               /\ mapblock'[b].inMemory = mapblock[b].inMemory /\ mapblock'[b].active = mapblock[b].active
               /\ ~mapblock[b].inMemory => mapblock'[b] = mapblock[b]
    OBVIOUS
  <2>2. mapblock[b] \in BlockType /\ m_game_time \in Stamps
    BY DEF ObjectsInv, Memory, Stamps
  <2>3. QED
    BY <1>1, <2>2 DEF BlockType
<1>3. Memory(mapblock')
  BY <1>1, <1>2 DEF Memory, ObjectsInv
<1>4. Entered(mapblock', sao')
  <2>1. Entered(mapblock, sao) /\ sao' = sao
    BY <1>1 DEF ObjectsInv
  <2>2. QED
    BY <1>2, <2>1, EnteredFewer
<1>5. LoopInv'
  <2> DEFINE there == {b \in loop.blocks : mapblock[b].inMemory}
  <2>1. loop' = [NoLoop EXCEPT !.op = "activate", !.blocks = there]
    BY DEF EndDeactivation
  <2>2. there \subseteq ObjectBlocks
    BY DEF ObjectsInv, LoopInv, LoopType
  <2>3. /\ loop'.op = "activate" /\ loop'.ids = {} /\ loop'.blocks = there /\ loop'.force = FALSE
        /\ loop'.removed = {} /\ loop'.current = NoBlock /\ loop' \in LoopType
    BY <2>1, <2>2, NoLoopIs DEF NoLoop, LoopType
  <2>4. \A b \in loop'.blocks : mapblock'[b].inMemory
    BY <1>2, <2>2, <2>3
  <2>5. QED
    BY <2>3, <2>4 DEF LoopInv
<1>6. ActiveBlocks' \subseteq ObjectBlocks
  BY DEF EndDeactivation, ObjectsInv
<1>7. QED
  BY <1>1, <1>3, <1>4, <1>5, <1>6 DEF ObjectsInv, Disk, Instanced

LEMMA ActivateBlock_Inv ==
  ASSUME ObjectsInv, NEW b \in ObjectBlocks, activateBlock(b)
  PROVE  ObjectsInv'
<1> DEFINE m == mapblock[b]
<1>1. /\ UNCHANGED <<sao, database, ActiveBlocks, scene, m_game_time, m_last_clear_objects_time>>
      /\ loop.op = "activate" /\ b \in loop.blocks /\ recent' = recent \union {b}
      /\ loop' = [loop EXCEPT !.current = b, !.blocks = @ \ {b}]
  BY DEF activateBlock, clock
<1>2. PICK gone \in BOOLEAN, w \in BOOLEAN :
        /\ mapblock' = [mapblock EXCEPT ![b].stored = IF gone THEN Nothing ELSE @,
                                        ![b].stamp = m_game_time, ![b].modified = @ \/ w]
        /\ \A o \in Objects : fate'[o] = fate[o] \/ fate'[o] = "thrown" \/ fate'[o] = "lost"
        /\ fate' = [o \in Objects |-> fate'[o]]
  BY DEF activateBlock
<1> DEFINE n == [m EXCEPT !.stored = IF gone THEN Nothing ELSE @, !.stamp = m_game_time,
                          !.modified = @ \/ w]
<1>3. m \in BlockType /\ m.inMemory /\ m_game_time \in Stamps /\ mapblock \in [ObjectBlocks -> BlockType]
  BY <1>1 DEF ObjectsInv, Memory, Stamps, LoopInv
<1>4. n \in BlockType /\ n.inMemory /\ n.active = m.active
  BY <1>3, TypesOfNothing DEF BlockType
<1>5. mapblock' = [mapblock EXCEPT ![b] = n]
  BY <1>2, <1>3 DEF BlockType
<1> HIDE DEF n
<1>6. Memory(mapblock') /\ mapblock'[b] = n /\ \A c \in ObjectBlocks : c # b => mapblock'[c] = mapblock[c]
  <2>1. Memory(mapblock)
    BY DEF ObjectsInv
  <2>2. Memory(mapblock') /\ Replaced(mapblock, b, n, mapblock')
    BY <1>4, <1>5, <2>1, OneBlockIs
  <2>3. QED
    BY <2>2 DEF Replaced
<1>7. Entered(mapblock', sao')
  <2>1. Entered(mapblock, sao) /\ sao' = sao
    BY <1>1 DEF ObjectsInv
  <2>2. \A c \in ObjectBlocks : mapblock'[c].active = mapblock[c].active
    BY <1>4, <1>6
  <2>3. QED
    BY <2>1, <2>2, EnteredFewer
<1>8. LoopInv'
  <2>1. LoopInv /\ loop \in LoopType
    BY DEF ObjectsInv, LoopInv
  <2>2. /\ loop'.op = "activate" /\ loop'.ids = loop.ids /\ loop'.blocks = loop.blocks \ {b}
        /\ loop'.force = loop.force /\ loop'.removed = loop.removed /\ loop'.current = b
        /\ loop' \in LoopType
    BY <1>1, <2>1 DEF LoopType
  <2>3. \A c \in loop'.blocks : mapblock'[c].inMemory
    BY <1>1, <1>4, <1>6, <2>1, <2>2 DEF LoopInv, LoopType
  <2>4. QED
    BY <1>1, <1>4, <1>6, <2>1, <2>2, <2>3 DEF LoopInv
<1>9. fate' \in [Objects -> Fates]
  BY <1>2 DEF ObjectsInv, Fates
<1>10. QED
  BY <1>1, <1>6, <1>7, <1>8, <1>9 DEF ObjectsInv, Disk, Instanced

LEMMA ActivateObject_Inv ==
  ASSUME ObjectsInv, NEW b \in ObjectBlocks, NEW o \in Objects, activateObject(b, o)
  PROVE  ObjectsInv'
<1>1. /\ UNCHANGED <<database, ActiveBlocks, recent, scene, m_game_time, m_last_clear_objects_time>>
      /\ loop.op = "activate" /\ loop.current = b /\ loop' = loop /\ Memory(mapblock')
      /\ \A c \in ObjectBlocks : c # b => mapblock'[c] = mapblock[c]
      /\ mapblock[b].inMemory /\ mapblock'[b].inMemory
  BY ActivateIs DEF activateObject, clock
<1>2. fate' \in [Objects -> Fates]
  <2>1. fate \in [Objects -> Fates]
    BY DEF ObjectsInv
  <2>2. fate' = [fate EXCEPT ![o] = IF @ = "living" THEN "lost" ELSE @] \/ fate' = fate
    BY ActivateIs
  <2>3. QED
    BY <2>1, <2>2 DEF Fates
<1>3. Instanced(sao') /\ Entered(mapblock', sao')
  <2>1. Instanced(sao) /\ Entered(mapblock, sao)
    BY DEF ObjectsInv
  <2>2. CASE mapblock'[b].active = mapblock[b].active /\ sao' = sao
    <3>1. \A c \in ObjectBlocks : mapblock'[c].active = mapblock[c].active
      BY <1>1, <2>2
    <3>2. QED
      BY <2>1, <2>2, <3>1, EnteredFewer
  <2>3. ASSUME NEW i \in ObjectIds, i \notin Instances,
               sao' = [sao EXCEPT ![i] = Registered(o, b)],
               mapblock'[b].active = [mapblock[b].active EXCEPT ![i] = o]
        PROVE  Instanced(sao') /\ Entered(mapblock', sao')
    <3>1. Registered(o, b) \in SaoType /\ Registered(o, b).who = o /\ Registered(o, b).at = b
          /\ Registered(o, b).static = b
      BY TypesOfNothing DEF Registered, SaoType
    <3>2. /\ Instanced(sao') /\ sao'[i] = Registered(o, b)
          /\ \A j \in ObjectIds : j # i => sao'[j] = sao[j]
      BY <2>1, <2>3, <3>1, SaoMoves
    <3>3. NotEntered(mapblock, i)
      BY <2>3, InstanceIs
    <3>4. mapblock[b].active \in Entries
      BY BlockIs DEF ObjectsInv
    <3>5. \A c \in ObjectBlocks, j \in ObjectIds :
            mapblock'[c].active[j] # NoObject =>
               \/ c = b /\ j = i /\ mapblock'[c].active[j] = o
               \/ j # i /\ mapblock'[c].active[j] = mapblock[c].active[j]
      BY <1>1, <2>3, <3>3, <3>4 DEF Entries, NotEntered
    <3>6. Entered(mapblock', sao')
      BY <2>1, <3>1, <3>2, <3>5 DEF Entered
    <3>7. QED
      BY <3>2, <3>6
  <2>4. \/ mapblock'[b].active = mapblock[b].active /\ sao' = sao
        \/ \E i \in ObjectIds :
             /\ i \notin Instances
             /\ sao' = [sao EXCEPT ![i] = Registered(o, b)]
             /\ mapblock'[b].active = [mapblock[b].active EXCEPT ![i] = o]
    BY ActivateIs
  <2>5. QED
    BY <2>2, <2>3, <2>4
<1>4. LoopInv'
  <2>1. LoopInv /\ loop.ids = {} /\ ~loop.force
    BY <1>1 DEF ObjectsInv, LoopInv
  <2>2. \A c \in ObjectBlocks : mapblock[c].inMemory => mapblock'[c].inMemory
    BY <1>1
  <2>3. \A c \in loop.blocks : c \in ObjectBlocks
    BY <2>1 DEF LoopInv, LoopType
  <2>4. QED
    BY <1>1, <2>1, <2>2, <2>3 DEF LoopInv
<1>5. QED
  BY <1>1, <1>2, <1>3, <1>4 DEF ObjectsInv, Disk

(* Steps that change only the loop.                                        *)
LEMMA OnlyLoop ==
  ASSUME ObjectsInv, LoopInv',
         UNCHANGED <<sao, mapblock, database, ActiveBlocks, recent, clock, fate>>
  PROVE  ObjectsInv'
  BY DEF ObjectsInv, Memory, Disk, Instanced, Entered, clock

LEMMA NoLoopInv ==
  ASSUME loop' = NoLoop
  PROVE  LoopInv'
  BY NoLoopIs DEF LoopInv

LEMMA LoopSteps_Inv ==
  ASSUME ObjectsInv
  PROVE  /\ (\E b \in ObjectBlocks : BlockActivated(b)) \/ EndActivation => ObjectsInv'
         /\ BeginRemoval \/ EndRemoval \/ shutdown => ObjectsInv'
<1>1. ASSUME NEW b \in ObjectBlocks, BlockActivated(b) PROVE ObjectsInv'
  <2>1. /\ UNCHANGED <<sao, mapblock, database, ActiveBlocks, recent, clock, fate>>
        /\ loop.current = b /\ loop' = [loop EXCEPT !.current = NoBlock] /\ LoopInv
    BY <1>1 DEF BlockActivated, ObjectsInv
  <2>2. loop.op = "activate" /\ loop.ids = {} /\ loop \in LoopType
    BY <2>1, ActiveObjectsAssumption DEF LoopInv
  <2>3. /\ loop'.op = "activate" /\ loop'.ids = {} /\ loop'.blocks = loop.blocks
        /\ loop'.force = loop.force /\ loop'.removed = loop.removed /\ loop'.current = NoBlock
        /\ loop' \in LoopType
    BY <2>1, <2>2 DEF LoopType
  <2>4. LoopInv'
    BY <2>1, <2>2, <2>3 DEF LoopInv
  <2>5. QED
    BY <2>1, <2>4, OnlyLoop
<1>2. ASSUME EndActivation \/ EndRemoval PROVE ObjectsInv'
  BY <1>2, NoLoopInv, OnlyLoop DEF EndActivation, EndRemoval
<1>3. ASSUME BeginRemoval PROVE ObjectsInv'
  <2>1. /\ UNCHANGED <<sao, mapblock, database, ActiveBlocks, recent, clock, fate>>
        /\ loop' = [NoLoop EXCEPT !.op = "remove", !.ids = {i \in Instances : Gone(i)}]
    BY <1>3 DEF BeginRemoval
  <2>2. {i \in Instances : Gone(i)} \subseteq ObjectIds
    BY DEF Instances
  <2>3. /\ loop'.op = "remove" /\ loop'.ids = {i \in Instances : Gone(i)} /\ loop'.blocks = {}
        /\ loop'.force = FALSE /\ loop'.removed = {} /\ loop'.current = NoBlock /\ loop' \in LoopType
    BY <2>1, <2>2, NoLoopIs DEF NoLoop, LoopType
  <2>4. Instances' = Instances /\ \A i \in ObjectIds : Gone(i)' = Gone(i)
    BY <2>1 DEF Instances, Gone
  <2>5. LoopInv'
    BY <2>2, <2>3, <2>4 DEF LoopInv
  <2>6. QED
    BY <2>1, <2>5, OnlyLoop
<1>4. ASSUME shutdown PROVE ObjectsInv'
  <2>1. /\ UNCHANGED <<sao, mapblock, database, ActiveBlocks, recent, clock, fate>>
        /\ loop' = [NoLoop EXCEPT !.op = "deactivate", !.ids = Instances, !.force = TRUE]
        /\ "restart" \in scene
    BY <1>4 DEF shutdown, Untouched
  <2>2. Instances \subseteq ObjectIds /\ Instances' = Instances /\ scene' = scene
    BY <2>1 DEF Instances, clock
  <2>3. /\ loop'.op = "deactivate" /\ loop'.ids = Instances /\ loop'.blocks = {}
        /\ loop'.force = TRUE /\ loop'.removed = {} /\ loop'.current = NoBlock /\ loop' \in LoopType
    BY <2>1, <2>2, NoLoopIs DEF NoLoop, LoopType
  <2>4. LoopInv'
    BY <2>1, <2>2, <2>3 DEF LoopInv
  <2>5. QED
    BY <2>1, <2>4, OnlyLoop
<1>5. QED
  BY <1>1, <1>2, <1>3, <1>4

LEMMA Load_Inv ==
  ASSUME ObjectsInv, NEW b \in ObjectBlocks
  PROVE  loadFromDisk(b) \/ finishGenOf(b) => ObjectsInv'
<1> DEFINE e == Emerged(mapblock, b)
<1>1. Memory(mapblock) /\ Disk(database) /\ Entered(mapblock, sao)
  BY DEF ObjectsInv
<1>2. Memory(e) /\ e[b].inMemory /\ Same(mapblock, database, e)
  BY <1>1, EmergedIs
<1>3. Entered(e, sao)
  BY <1>1, <1>2, EnteredSame
<1>4. ASSUME loadFromDisk(b) PROVE ObjectsInv'
  <2>1. /\ mapblock' = e /\ UNCHANGED <<sao, database, ActiveBlocks, clock, loop, fate>>
        /\ loop = NoLoop /\ recent' \subseteq ObjectBlocks
    BY <1>4, KeepIs, ObjectsInvIs DEF loadFromDisk, Quiet
  <2> HIDE DEF e
  <2>2. LoopInv'
    BY <2>1, NoLoopInv
  <2>3. QED
    BY <1>2, <1>3, <2>1, <2>2 DEF ObjectsInv, Disk, Instanced, clock
<1>5. ASSUME finishGenOf(b) PROVE ObjectsInv'
  <2> DEFINE m == [e EXCEPT ![b].modified = TRUE]
             n == [e[b] EXCEPT !.modified = TRUE]
  <2>1. /\ mapblock' = m /\ UNCHANGED <<sao, database, ActiveBlocks, clock, fate>>
        /\ loop' = [NoLoop EXCEPT !.op = "activate", !.blocks = {b}]
        /\ recent' \subseteq ObjectBlocks
    BY <1>5, KeepIs, ObjectsInvIs DEF finishGenOf
  <2> HIDE DEF e
  <2>2. e[b] \in BlockType
    BY <1>2 DEF Memory
  <2>3. n \in BlockType /\ n.inMemory /\ n.active = e[b].active
    BY <1>2, <2>2 DEF BlockType
  <2>4. m = [e EXCEPT ![b] = n]
    BY <1>2, <2>2 DEF BlockType
  <2> HIDE DEF n, m
  <2>51. Memory(m) /\ Replaced(e, b, n, m)
    BY <1>2, <2>3, <2>4, OneBlockIs
  <2>5. Memory(m) /\ m[b] = n /\ \A c \in ObjectBlocks : c # b => m[c] = e[c]
    BY <2>51 DEF Replaced
  <2>6. \A c \in ObjectBlocks : m[c].active = e[c].active
    BY <2>3, <2>5
  <2>7. Entered(m, sao)
    BY <1>3, <2>6, EnteredFewer
  <2>8. /\ loop'.op = "activate" /\ loop'.ids = {} /\ loop'.blocks = {b} /\ loop'.force = FALSE
        /\ loop'.removed = {} /\ loop'.current = NoBlock /\ loop' \in LoopType
    BY <2>1, NoLoopIs DEF NoLoop, LoopType
  <2>9. LoopInv'
    BY <2>1, <2>3, <2>5, <2>8 DEF LoopInv
  <2>10. QED
    BY <2>1, <2>5, <2>7, <2>9 DEF ObjectsInv, Disk, Instanced, clock
<1>6. QED
  BY <1>4, <1>5

LEMMA Remove_Inv ==
  ASSUME ObjectsInv, NEW i \in ObjectIds, removeRemovedObject(i)
  PROVE  ObjectsInv'
<1>1. /\ i \in Instances /\ i \in loop.ids /\ loop.op = "remove"
      /\ loop' = [loop EXCEPT !.ids = @ \ {i}] /\ Memory(mapblock')
  BY RemoveIs
<1>2. Instanced(sao) /\ Entered(mapblock, sao) /\ NoBlock \notin ObjectBlocks
  BY ActiveObjectsAssumption DEF ObjectsInv
<1>3. ASSUME sao' = [sao EXCEPT ![i] = NoSao]
      PROVE  /\ Instanced(sao') /\ sao'[i] = NoSao
             /\ \A j \in ObjectIds : j # i => sao'[j] = sao[j]
  BY <1>2, <1>3, TypesOfNothing, SaoMoves
<1>4. ASSUME NEW st \in SpotBlocks, sao' = [sao EXCEPT ![i].static = st]
      PROVE  Instanced(sao') /\ \A j \in ObjectIds : j # i => sao'[j] = sao[j]
  <2> DEFINE s == [sao[i] EXCEPT !.static = st]
  <2>1. /\ s \in SaoType /\ s.who \in Objects /\ s.at \in ObjectBlocks
    BY <1>1, InstanceIs DEF SaoType, SpotBlocks
  <2>2. sao' = [sao EXCEPT ![i] = s]
    BY <1>4
  <2> HIDE DEF s
  <2>3. QED
    BY <1>2, <2>1, <2>2, SaoMoves
<1>5. ASSUME sao[i].removal PROVE Instanced(sao') /\ Entered(mapblock', sao')
                                  /\ \A j \in ObjectIds : j # i => sao'[j] = sao[j]
  <2>1. /\ Changed(mapblock, database, mapblock', i, sao[i].who, NoBlock, NoBlock)
        /\ \/ sao' = [sao EXCEPT ![i] = NoSao]
           \/ \E st \in SpotBlocks : sao' = [sao EXCEPT ![i].static = st]
    BY <1>5, RemoveIs DEF SpotBlocks
  <2>2. Instanced(sao') /\ \A j \in ObjectIds : j # i => sao'[j] = sao[j]
    BY <2>1, <1>3, <1>4
  <2>3. QED
    BY <1>2, <2>1, <2>2, EnteredChanged
<1>6. ASSUME ~sao[i].removal PROVE Instanced(sao') /\ Entered(mapblock', sao')
                                   /\ \A j \in ObjectIds : j # i => sao'[j] = sao[j]
  <2>1. \/ mapblock' = mapblock /\ sao' = sao
        \/ /\ sao' = [sao EXCEPT ![i] = NoSao] /\ NotEntered(mapblock, i)
           /\ Same(mapblock, database, mapblock')
        \/ /\ sao' = [sao EXCEPT ![i] = NoSao]
           /\ Changed(mapblock, database, mapblock', i, sao[i].who, NoBlock, sao[i].static)
    BY <1>6, RemoveIs
  <2>2. CASE mapblock' = mapblock /\ sao' = sao
    BY <1>2, <2>2 DEF Instanced, Entered
  <2>3. CASE /\ sao' = [sao EXCEPT ![i] = NoSao] /\ NotEntered(mapblock, i)
             /\ Same(mapblock, database, mapblock')
    <3>1. Instanced(sao') /\ \A j \in ObjectIds : j # i => sao'[j] = sao[j]
      BY <1>3, <2>3
    <3>2. \A j \in ObjectIds : sao'[j] = sao[j] \/ NotEntered(mapblock, j)
      BY <2>3, <3>1
    <3>3. Entered(mapblock', sao')
      BY <1>2, <2>3, <3>2, EnteredSame
    <3>4. QED
      BY <3>1, <3>3
  <2>4. CASE /\ sao' = [sao EXCEPT ![i] = NoSao]
             /\ Changed(mapblock, database, mapblock', i, sao[i].who, NoBlock, sao[i].static)
    <3>1. Instanced(sao') /\ \A j \in ObjectIds : j # i => sao'[j] = sao[j]
      BY <1>3, <2>4
    <3>2. QED
      BY <1>2, <2>4, <3>1, EnteredChanged
  <2>5. QED
    BY <2>1, <2>2, <2>3, <2>4
<1>7. Instanced(sao') /\ Entered(mapblock', sao') /\ \A j \in ObjectIds : j # i => sao'[j] = sao[j]
  BY <1>5, <1>6
<1>8. UNCHANGED <<scene, database, ActiveBlocks, m_game_time, m_last_clear_objects_time, fate>>
      /\ recent' \subseteq ObjectBlocks
  BY KeepIs, ObjectsInvIs DEF removeRemovedObject, clock
<1>9. ~loop.force
  BY <1>1 DEF ObjectsInv, LoopInv
<1>10. LoopInv'
  BY <1>1, <1>7, <1>8, <1>9, LoopGoesOn
<1>11. QED
  BY <1>1, <1>7, <1>8, <1>10 DEF ObjectsInv, Disk

(* A block on disk, as it is written when the one in memory is.            *)
LEMMA WrittenIs ==
  ASSUME Memory(mapblock), Disk(database), NEW b \in ObjectBlocks, NEW d,
         d = IF mapblock[b].modified THEN Serialized(mapblock[b]) ELSE database[b]
  PROVE  d \in DiskType /\ (~d.exists => d = Missing)
  BY SerializedIs DEF Memory, Disk

LEMMA Save_Inv ==
  ASSUME ObjectsInv, saveMap
  PROVE  ObjectsInv'
<1>1. /\ UNCHANGED <<sao, ActiveBlocks, clock, recent, loop, fate>> /\ loop = NoLoop
      /\ database' = [b \in ObjectBlocks |->
                        IF mapblock[b].modified THEN Serialized(mapblock[b]) ELSE database[b]]
      /\ mapblock' = [b \in ObjectBlocks |-> [mapblock[b] EXCEPT !.modified = FALSE]]
  BY DEF saveMap, Untouched, Quiet
<1>2. Memory(mapblock) /\ Disk(database) /\ Entered(mapblock, sao)
  BY DEF ObjectsInv
<1>3. ASSUME NEW b \in ObjectBlocks
      PROVE  /\ mapblock'[b] \in BlockType /\ mapblock'[b].active = mapblock[b].active
             /\ ~mapblock'[b].inMemory => mapblock'[b] = Unloaded
  <2>1. mapblock[b] \in BlockType /\ (~mapblock[b].inMemory => mapblock[b] = Unloaded)
    BY <1>2 DEF Memory
  <2>2. mapblock'[b] = [mapblock[b] EXCEPT !.modified = FALSE]
    BY <1>1
  <2>3. mapblock'[b] \in BlockType /\ mapblock'[b].active = mapblock[b].active
        /\ mapblock'[b].inMemory = mapblock[b].inMemory
    BY <2>1, <2>2 DEF BlockType
  <2>4. [Unloaded EXCEPT !.modified = FALSE] = Unloaded
    BY UnloadedIs DEF BlockType
  <2>5. QED
    BY <2>1, <2>2, <2>3, <2>4
<1>4. Memory(mapblock')
  <2>1. mapblock' \in [ObjectBlocks -> BlockType]
    BY <1>1, <1>3
  <2>2. QED
    BY <1>3, <2>1 DEF Memory
<1>5. Disk(database')
  BY <1>1, <1>2, WrittenIs DEF Disk
<1>6. Entered(mapblock', sao)
  BY <1>2, <1>3, EnteredFewer
<1>7. LoopInv'
  BY <1>1, NoLoopInv
<1>8. QED
  BY <1>1, <1>4, <1>5, <1>6, <1>7 DEF ObjectsInv, Instanced, clock

(* A block that is dropped from memory.                                    *)
LEMMA Dropped ==
  ASSUME ObjectsInv, Quiet, NEW b \in ObjectBlocks, mapblock' = [mapblock EXCEPT ![b] = Unloaded],
         UNCHANGED <<sao, ActiveBlocks, clock, loop>>, recent' \subseteq recent, Disk(database'),
         fate' \in [Objects -> Fates]
  PROVE  ObjectsInv'
<1>1. Memory(mapblock) /\ Entered(mapblock, sao)
  BY DEF ObjectsInv
<1>2. Memory(mapblock') /\ Replaced(mapblock, b, Unloaded, mapblock')
  BY <1>1, UnloadedIs, OneBlockIs
<1>3. \A c \in ObjectBlocks, j \in ObjectIds :
        mapblock'[c].active[j] # NoObject => mapblock'[c].active[j] = mapblock[c].active[j]
  BY <1>2, UnloadedIs DEF Replaced
<1>4. Entered(mapblock', sao)
  BY <1>1, <1>3 DEF Entered
<1>5. LoopInv'
  BY NoLoopInv DEF Quiet
<1>6. QED
  BY <1>2, <1>4, <1>5 DEF ObjectsInv, Instanced, clock

LEMMA Unload_Inv ==
  ASSUME ObjectsInv, NEW b \in ObjectBlocks, timerUnload(b) \/ deleteBlock(b)
  PROVE  ObjectsInv'
<1>1. /\ Quiet /\ mapblock' = [mapblock EXCEPT ![b] = Unloaded]
      /\ UNCHANGED <<sao, ActiveBlocks, clock, loop>>
      /\ recent' \subseteq recent
  BY DEF timerUnload, deleteBlock, Untouched
<1>2. Memory(mapblock) /\ Disk(database) /\ fate \in [Objects -> Fates]
  BY DEF ObjectsInv
<1>3. fate' \in [Objects -> Fates]
  BY <1>2 DEF timerUnload, deleteBlock, Fates
<1>4. Disk(database')
  <2>1. ASSUME NEW d \in DiskType, ~d.exists => d = Missing, database' = [database EXCEPT ![b] = d]
        PROVE  Disk(database')
    BY <1>2, <2>1 DEF Disk
  <2>2. CASE timerUnload(b)
    <3> DEFINE d == IF mapblock[b].modified THEN Serialized(mapblock[b]) ELSE database[b]
    <3>1. database' = [database EXCEPT ![b] = d]
      BY <2>2 DEF timerUnload
    <3>2. d \in DiskType /\ (~d.exists => d = Missing)
      BY <1>2, WrittenIs
    <3> HIDE DEF d
    <3>3. QED
      BY <2>1, <3>1, <3>2
  <2>3. CASE deleteBlock(b)
    BY <2>1, <2>3, TypesOfNothing DEF deleteBlock
  <2>4. QED
    BY <2>2, <2>3
<1>5. QED
  BY <1>1, <1>3, <1>4, Dropped

LEMMA Clear_Inv ==
  ASSUME ObjectsInv, NEW full \in BOOLEAN, clearObjects(full)
  PROVE  ObjectsInv'
<1>1. /\ UNCHANGED <<ActiveBlocks, m_game_time, scene, recent, loop>> /\ loop = NoLoop
      /\ m_last_clear_objects_time' = m_game_time
      /\ mapblock' = [b \in ObjectBlocks |->
                        LET m == mapblock[b]
                        IN  IF m.stored = Nothing /\ m.active = NoneIn THEN m
                            ELSE [m EXCEPT !.stored = Nothing, !.active = NoneIn, !.modified = TRUE]]
      /\ database' = [b \in ObjectBlocks |->
                        IF full /\ ~mapblock[b].inMemory
                        THEN [database[b] EXCEPT !.objects = Nothing] ELSE database[b]]
      /\ sao' = [i \in ObjectIds |->
                   IF sao[i].known
                   THEN [sao[i] EXCEPT !.removal = TRUE,
                           !.static = IF @ # NoBlock /\ mapblock[@].inMemory THEN NoBlock ELSE @]
                   ELSE NoSao]
  BY DEF clearObjects, Quiet
<1>2. Memory(mapblock) /\ Disk(database) /\ Instanced(sao) /\ fate \in [Objects -> Fates]
  BY DEF ObjectsInv
<1>3. ASSUME NEW b \in ObjectBlocks
      PROVE  /\ mapblock'[b] \in BlockType
             /\ ~mapblock'[b].inMemory => mapblock'[b] = Unloaded
             /\ mapblock'[b].active = NoneIn
  <2>1. mapblock[b] \in BlockType /\ (~mapblock[b].inMemory => mapblock[b] = Unloaded)
    BY <1>2 DEF Memory
  <2>2. CASE mapblock[b].stored = Nothing /\ mapblock[b].active = NoneIn
    BY <1>1, <2>1, <2>2
  <2>3. CASE ~(mapblock[b].stored = Nothing /\ mapblock[b].active = NoneIn)
    <3>1. mapblock'[b] = [mapblock[b] EXCEPT !.stored = Nothing, !.active = NoneIn, !.modified = TRUE]
      BY <1>1, <2>3
    <3>2. mapblock[b].inMemory
      BY <2>1, <2>3 DEF Unloaded
    <3>3. QED
      BY <2>1, <3>1, <3>2, TypesOfNothing DEF BlockType
  <2>4. QED
    BY <2>2, <2>3
<1>4. Memory(mapblock')
  <2>1. mapblock' \in [ObjectBlocks -> BlockType]
    BY <1>1, <1>3
  <2>2. QED
    BY <1>3, <2>1 DEF Memory
<1>5. Disk(database')
  <2>1. ASSUME NEW b \in ObjectBlocks
        PROVE  database'[b] \in DiskType /\ (~database'[b].exists => database'[b] = Missing)
    <3>1. database[b] \in DiskType /\ (~database[b].exists => database[b] = Missing)
      BY <1>2 DEF Disk
    <3>2. [database[b] EXCEPT !.objects = Nothing] \in DiskType
          /\ [database[b] EXCEPT !.objects = Nothing].exists = database[b].exists
      BY <3>1, TypesOfNothing DEF DiskType
    <3>3. [Missing EXCEPT !.objects = Nothing] = Missing
      <4>1. Missing \in DiskType /\ Missing.objects = Nothing
        BY UnloadedIs DEF Missing
      <4>2. QED
        BY <4>1 DEF DiskType
    <3>4. QED
      BY <1>1, <3>1, <3>2, <3>3
  <2>2. database' \in [ObjectBlocks -> DiskType]
    BY <1>1, <2>1
  <2>3. QED
    BY <2>1, <2>2 DEF Disk
<1>6. Entered(mapblock', sao')
  BY <1>3 DEF Entered, NoneIn
<1>7. Instanced(sao')
  <2>1. ASSUME NEW i \in ObjectIds
        PROVE  /\ sao'[i] \in SaoType
               /\ sao'[i] = NoSao \/ (sao'[i].who \in Objects /\ sao'[i].at \in ObjectBlocks)
    <3>1. CASE sao[i].known
      <4> DEFINE st == IF sao[i].static # NoBlock /\ mapblock[sao[i].static].inMemory
                       THEN NoBlock ELSE sao[i].static
                 s == [sao[i] EXCEPT !.removal = TRUE, !.static = st]
      <4>1. sao[i] \in SaoType /\ sao[i] # NoSao
        BY <1>2, <3>1 DEF Instanced, NoSao
      <4>2. sao[i].who \in Objects /\ sao[i].at \in ObjectBlocks
        BY <1>2, <4>1 DEF Instanced
      <4>3. sao'[i] = s
        BY <1>1, <3>1, <4>1 DEF SaoType
      <4>4. st \in ObjectBlocks \union {NoBlock}
        BY <4>1 DEF SaoType
      <4> HIDE DEF st
      <4>5. QED
        BY <4>1, <4>2, <4>3, <4>4 DEF SaoType
    <3>2. CASE ~sao[i].known
      BY <1>1, <3>2, TypesOfNothing
    <3>3. QED
      BY <3>1, <3>2
  <2>2. sao' \in [ObjectIds -> SaoType]
    BY <1>1, <2>1
  <2>3. QED
    BY <2>1, <2>2 DEF Instanced
<1>8. LoopInv'
  BY <1>1, NoLoopInv
<1>9. fate' \in [Objects -> Fates]
  BY DEF clearObjects, Fates
<1>10. m_game_time' \in 0 .. MaxTime /\ m_last_clear_objects_time' \in 0 .. m_game_time'
  <2>1. m_game_time \in 0 .. MaxTime /\ MaxTime \in Nat
    BY ActiveObjectsAssumption DEF ObjectsInv
  <2>2. m_game_time' = m_game_time /\ m_last_clear_objects_time' = m_game_time
    BY <1>1
  <2>3. QED
    BY <2>1, <2>2
<1>11. QED
  BY <1>1, <1>4, <1>5, <1>6, <1>7, <1>8, <1>9, <1>10 DEF ObjectsInv

LEMMA Restart_Inv ==
  ASSUME ObjectsInv, restart
  PROVE  ObjectsInv'
<1>1. /\ UNCHANGED <<sao, clock, fate>> /\ loop' = NoLoop /\ ActiveBlocks' = {} /\ recent' = {}
      /\ mapblock' = [b \in ObjectBlocks |-> Unloaded]
      /\ database' = [b \in ObjectBlocks |->
                        IF mapblock[b].modified THEN Serialized(mapblock[b]) ELSE database[b]]
  BY DEF restart
<1>2. Memory(mapblock) /\ Disk(database)
  BY DEF ObjectsInv
<1>3. Memory(mapblock') /\ Entered(mapblock', sao)
  BY <1>1, UnloadedIs DEF Memory, Entered
<1>4. Disk(database')
  BY <1>1, <1>2, WrittenIs DEF Disk
<1>5. LoopInv'
  BY <1>1, NoLoopInv
<1>6. QED
  BY <1>1, <1>3, <1>4, <1>5 DEF ObjectsInv, Instanced, clock

(* What comes from outside changes neither who an instance is nor its      *)
(* block.                                                                  *)
LEMMA Outside_Inv ==
  ASSUME ObjectsInv, NEW i \in ObjectIds
  PROVE  (\E b \in ObjectBlocks : MoveObject(i, b)) \/ KnownByClients(i) \/ markForRemoval(i)
           => ObjectsInv'
<1>1. SUFFICES ASSUME \/ \E b \in ObjectBlocks : MoveObject(i, b)
                      \/ KnownByClients(i) \/ markForRemoval(i)
               PROVE  ObjectsInv'
  OBVIOUS
<1>2. /\ UNCHANGED <<mapblock, database, ActiveBlocks, recent, clock, loop>> /\ loop = NoLoop
      /\ i \in Instances
      /\ \/ \E b \in ObjectBlocks : sao' = [sao EXCEPT ![i].at = b]
         \/ sao' = [sao EXCEPT ![i].known = ~@] \/ sao' = [sao EXCEPT ![i].removal = TRUE]
  BY <1>1 DEF MoveObject, KnownByClients, markForRemoval, Outside, Quiet
<1>3. /\ sao[i] \in SaoType /\ sao[i].who \in Objects /\ sao[i].at \in ObjectBlocks
      /\ Instanced(sao) /\ Entered(mapblock, sao) /\ fate \in [Objects -> Fates]
  BY <1>2, InstanceIs DEF ObjectsInv
<1>4. PICK s \in SaoType : /\ sao' = [sao EXCEPT ![i] = s] /\ s.who = sao[i].who
                           /\ s.at \in ObjectBlocks /\ s.static = sao[i].static
  <2>1. ASSUME NEW b \in ObjectBlocks, sao' = [sao EXCEPT ![i].at = b]
        PROVE  \E s \in SaoType : /\ sao' = [sao EXCEPT ![i] = s] /\ s.who = sao[i].who
                                  /\ s.at \in ObjectBlocks /\ s.static = sao[i].static
    <3> DEFINE s == [sao[i] EXCEPT !.at = b]
    <3>1. /\ s \in SaoType /\ s.who = sao[i].who /\ s.at \in ObjectBlocks
          /\ s.static = sao[i].static
      BY <1>3 DEF SaoType
    <3>2. sao' = [sao EXCEPT ![i] = s]
      BY <2>1
    <3> HIDE DEF s
    <3>3. QED
      BY <3>1, <3>2
  <2>2. CASE sao' = [sao EXCEPT ![i].known = ~@]
    <3> DEFINE s == [sao[i] EXCEPT !.known = ~@]
    <3>1. /\ s \in SaoType /\ s.who = sao[i].who /\ s.at \in ObjectBlocks
          /\ s.static = sao[i].static
      BY <1>3 DEF SaoType
    <3>2. sao' = [sao EXCEPT ![i] = s]
      BY <2>2, <1>3 DEF Instanced
    <3> HIDE DEF s
    <3>3. QED
      BY <3>1, <3>2
  <2>3. CASE sao' = [sao EXCEPT ![i].removal = TRUE]
    <3> DEFINE s == [sao[i] EXCEPT !.removal = TRUE]
    <3>1. /\ s \in SaoType /\ s.who = sao[i].who /\ s.at \in ObjectBlocks
          /\ s.static = sao[i].static
      BY <1>3 DEF SaoType
    <3>2. sao' = [sao EXCEPT ![i] = s]
      BY <2>3
    <3> HIDE DEF s
    <3>3. QED
      BY <3>1, <3>2
  <2>4. QED
    BY <1>2, <2>1, <2>2, <2>3
<1>5. Instanced(sao') /\ sao'[i] = s /\ \A j \in ObjectIds : j # i => sao'[j] = sao[j]
  BY <1>3, <1>4, SaoMoves
<1>6. \A j \in ObjectIds : sao'[j].who = sao[j].who /\ sao'[j].static = sao[j].static
  BY <1>4, <1>5
<1>7. Entered(mapblock, sao')
  BY <1>3, <1>6, EnteredFewer
<1>8. LoopInv'
  BY <1>2, NoLoopInv
<1>9. fate' \in [Objects -> Fates]
  BY <1>1, <1>3 DEF MoveObject, KnownByClients, markForRemoval, Fates
<1>10. QED
  BY <1>2, <1>5, <1>7, <1>8, <1>9 DEF ObjectsInv, Memory, Disk, clock

LEMMA Init_Inv ==
  ASSUME ActiveObjectsInit
  PROVE  ObjectsInv
<1>1. Memory(mapblock) /\ Entered(mapblock, sao)
  BY UnloadedIs DEF ActiveObjectsInit, Memory, Entered
<1>2. Disk(database)
  <2>1. PICK old \in SUBSET ObjectBlocks :
          database = [b \in ObjectBlocks |->
                        IF b \in old THEN [Missing EXCEPT !.exists = TRUE, !.stamp = 0] ELSE Missing]
    BY DEF ActiveObjectsInit
  <2>2. [Missing EXCEPT !.exists = TRUE, !.stamp = 0] \in DiskType
        /\ [Missing EXCEPT !.exists = TRUE, !.stamp = 0].exists
    <3>1. Missing \in DiskType /\ 0 \in Stamps
      BY TypesOfNothing, ActiveObjectsAssumption DEF Stamps
    <3>2. QED
      BY <3>1 DEF DiskType
  <2>3. QED
    BY <2>1, <2>2, TypesOfNothing DEF Disk
<1>3. Instanced(sao)
  BY TypesOfNothing DEF ActiveObjectsInit, Instanced
<1>4. LoopInv
  BY NoLoopIs DEF ActiveObjectsInit, LoopInv
<1>5. QED
  BY <1>1, <1>2, <1>3, <1>4, ActiveObjectsAssumption DEF ActiveObjectsInit, ObjectsInv, Fates

(* Every step keeps it.                                                    *)
LEMMA Next_Inv ==
  ASSUME ObjectsInv, [ActiveObjectsNext]_aoVars
  PROVE  ObjectsInv'
<1>1. CASE UNCHANGED aoVars
  BY <1>1 DEF aoVars, clock, ObjectsInv, Memory, Disk, Instanced, Entered, LoopInv, Instances, Gone
<1>2. ASSUME NEW o \in Objects, NEW b \in ObjectBlocks, addActiveObject(o, b) \/ activateObject(b, o)
      PROVE  ObjectsInv'
  BY <1>2, Add_Inv, ActivateObject_Inv
<1>3. ASSUME NEW i \in ObjectIds,
             \/ \E b \in ObjectBlocks : MoveObject(i, b)
             \/ KnownByClients(i) \/ markForRemoval(i)
      PROVE  ObjectsInv'
  BY <1>3, Outside_Inv
<1>4. ASSUME NEW i \in ObjectIds,
             \/ StaysActive(i) \/ ResaveStatic(i) \/ Deactivate(i)
             \/ removeRemovedObject(i)
      PROVE  ObjectsInv'
  BY <1>4, Stays_Inv, Resave_Inv, Deactivate_Inv, Remove_Inv
<1>5. ASSUME NEW newlist \in SUBSET ObjectBlocks, ManageActiveBlocks(newlist)
      PROVE  ObjectsInv'
  BY <1>5, Manage_Inv
<1>6. ASSUME NEW b \in ObjectBlocks,
             \/ activateBlock(b) \/ BlockActivated(b)
             \/ loadFromDisk(b) \/ finishGenOf(b) \/ timerUnload(b) \/ deleteBlock(b)
      PROVE  ObjectsInv'
  BY <1>6, ActivateBlock_Inv, LoopSteps_Inv, Load_Inv, Unload_Inv
<1>7. ASSUME NEW full \in BOOLEAN, clearObjects(full)
      PROVE  ObjectsInv'
  BY <1>7, Clear_Inv
<1>8. ASSUME \/ EndDeactivation \/ EndActivation \/ BeginRemoval \/ EndRemoval
             \/ saveMap \/ shutdown \/ restart
      PROVE  ObjectsInv'
  BY <1>8, EndDeactivation_Inv, LoopSteps_Inv, Save_Inv, Restart_Inv
<1>9. QED
  BY <1>1, <1>2, <1>3, <1>4, <1>5, <1>6, <1>7, <1>8 DEF ActiveObjectsNext

LEMMA InvGivesTypes ==
  ASSUME ObjectsInv
  PROVE  ActiveObjectsTypeOK /\ NoNastyBug
<1>1. Memory(mapblock) /\ Disk(database) /\ Instanced(sao) /\ Entered(mapblock, sao) /\ LoopInv
  BY DEF ObjectsInv
<1>2. ActiveObjectsTypeOK
  BY <1>1, BlockIs DEF ObjectsInv, Memory, Disk, Instanced, SaoType, Entries, Counts, Fates,
     ActiveObjectsTypeOK
<1>3. NoNastyBug
  BY <1>1 DEF LoopInv, LoopType, Entered, NoNastyBug
<1>4. QED
  BY <1>2, <1>3

LEMMA ObjectsInvAlways == ActiveObjectsSpec => []ObjectsInv
  BY Init_Inv, Next_Inv, PTL DEF ActiveObjectsSpec

(* Instances, blocks and what is saved of them are what they are declared  *)
(* to be, in every run.                                                    *)
THEOREM ObjectsTypesAlways == ActiveObjectsSpec => []ActiveObjectsTypeOK
  BY ObjectsInvAlways, InvGivesTypes, PTL

(* What setStaticForActiveObjectsInBlock takes for a bug, and what         *)
(* StaticObjectList::insert is fatal about, never happen.                  *)
THEOREM NoNastyBugEver == ActiveObjectsSpec => []NoNastyBug
  BY ObjectsInvAlways, InvGivesTypes, PTL

-----------------------------------------------------------------------------
(* Where an object is: instance i stays (b is no block), or waits with an  *)
(* entry in b, or it lies in b (i is no id).  An object whose fate is told *)
(* by its places is in one of them if it lives and else in none, one id    *)
(* has all entries of it, and what is on disk of a block that needs not be *)
(* written is what would be written.                                       *)
Tracked == {"unborn", "living", "removed"}
SpotIds == ObjectIds \union {NoId}
Spot(mb, db, s, i, b, o) ==
  \/ i \in ObjectIds /\ b = NoBlock /\ s[i].who = o /\ ~s[i].removal /\ ~s[i].deactivation
  \/ i \in ObjectIds /\ b \in ObjectBlocks /\ mb[b].active[i] = o /\ s[i].deactivation
  \/ i = NoId /\ b \in ObjectBlocks /\ Lies(mb, db, b)[o] > 0
HasEntry(mb, b, o) == \E i \in ObjectIds : mb[b].active[i] = o
Held(mb, db, b, o) == Lies(mb, db, b)[o] + IF HasEntry(mb, b, o) THEN 1 ELSE 0

OneSpot(mb, db, s, o) ==
  /\ \A b \in ObjectBlocks : Lies(mb, db, b)[o] <= 1
  /\ \A i, j \in SpotIds, b, c \in SpotBlocks :
       Spot(mb, db, s, i, b, o) /\ Spot(mb, db, s, j, c, o) => i = j /\ b = c
Somewhere(mb, db, s, o) == \E i \in SpotIds, b \in SpotBlocks : Spot(mb, db, s, i, b, o)
OneEntry(mb, o) == \A b, c \in ObjectBlocks, i, j \in ObjectIds :
                     mb[b].active[i] = o /\ mb[c].active[j] = o => i = j
Stories(mb, db, s, f, o) ==
  /\ f = "living" <=> Somewhere(mb, db, s, o)
  /\ \A i \in ObjectIds : s[i].who = o => f # "unborn" /\ (f = "living" => ~s[i].removal)
DiskIsTrue(mb, db, o) ==
  \A b \in ObjectBlocks : OnDisk(mb, b) => db[b].objects[o] = Held(mb, db, b, o)

Placed(mb, db, s, f, o) ==
  f \in Tracked => /\ OneSpot(mb, db, s, o) /\ OneEntry(mb, o)
                   /\ Stories(mb, db, s, f, o) /\ DiskIsTrue(mb, db, o)
PlacedInv == \A o \in Objects : Placed(mapblock, database, sao, fate[o], o)

LEMMA LiesIs ==
  ASSUME NEW mb, NEW db, Memory(mb), Disk(db), NEW b \in ObjectBlocks, NEW o \in Objects
  PROVE  Lies(mb, db, b)[o] \in Nat
  BY DEF Memory, Disk, BlockType, DiskType, Counts, Lies

(* Another state in which nothing of o has changed but that a block may    *)
(* have to be written, or was written as it is.                            *)
Alike(mb, db, s, r, d, z, o) ==
  /\ \A b \in ObjectBlocks :
       /\ Lies(r, d, b)[o] = Lies(mb, db, b)[o]
       /\ OnDisk(r, b) => \/ OnDisk(mb, b) /\ d[b].objects[o] = db[b].objects[o]
                          \/ d[b].objects[o] = Held(r, d, b, o)
  /\ \A b \in ObjectBlocks, i \in ObjectIds :
       /\ r[b].active[i] = o <=> mb[b].active[i] = o
       /\ mb[b].active[i] = o => (z[i].deactivation <=> s[i].deactivation)
  /\ \A i \in ObjectIds :
       /\ z[i].who = o => s[i].who = o /\ (z[i].removal => s[i].removal)
       /\ z[i].who = o /\ ~z[i].removal /\ ~z[i].deactivation
            <=> s[i].who = o /\ ~s[i].removal /\ ~s[i].deactivation

LEMMA AlikePlaced ==
  ASSUME NEW mb, NEW db, NEW s, NEW r, NEW d, NEW z, NEW o, NEW f,
         Alike(mb, db, s, r, d, z, o), Placed(mb, db, s, f, o)
  PROVE  Placed(r, d, z, f, o)
<1> SUFFICES ASSUME f \in Tracked
             PROVE  /\ OneSpot(r, d, z, o) /\ OneEntry(r, o)
                    /\ Stories(r, d, z, f, o) /\ DiskIsTrue(r, d, o)
  BY DEF Placed
<1>1. /\ OneSpot(mb, db, s, o) /\ OneEntry(mb, o)
      /\ Stories(mb, db, s, f, o) /\ DiskIsTrue(mb, db, o)
  BY DEF Placed
<1>2. \A i \in SpotIds, b \in SpotBlocks : Spot(r, d, z, i, b, o) <=> Spot(mb, db, s, i, b, o)
  BY DEF Alike, Spot
<1>3. OneSpot(r, d, z, o)
  BY <1>1, <1>2 DEF OneSpot, Alike
<1>4. OneEntry(r, o)
  BY <1>1 DEF OneEntry, Alike
<1>5. Stories(r, d, z, f, o)
  BY <1>1, <1>2 DEF Stories, Somewhere, Alike
<1>6. \A b \in ObjectBlocks : Held(r, d, b, o) = Held(mb, db, b, o)
  BY DEF Held, HasEntry, Alike
<1>7. DiskIsTrue(r, d, o)
  BY <1>1, <1>6 DEF DiskIsTrue, Alike
<1>8. QED
  BY <1>3, <1>4, <1>5, <1>7

LEMMA OtherFate ==
  ASSUME NEW mb, NEW db, NEW s, NEW o, NEW f, f \notin Tracked
  PROVE  Placed(mb, db, s, f, o)
  BY DEF Placed

(* When one spot becomes another, or none is left.                         *)
LEMMA SpotMoved ==
  ASSUME NEW r, NEW d, NEW z, NEW o, NEW i \in SpotIds, NEW b \in SpotBlocks,
         \A c \in ObjectBlocks : Lies(r, d, c)[o] <= 1,
         \A j \in SpotIds, c \in SpotBlocks : Spot(r, d, z, j, c, o) <=> j = i /\ c = b
  PROVE  OneSpot(r, d, z, o) /\ Somewhere(r, d, z, o)
  BY DEF OneSpot, Somewhere

LEMMA NoSpotLeft ==
  ASSUME NEW r, NEW d, NEW z, NEW o, Memory(r), Disk(d), o \in Objects,
         \A j \in SpotIds, c \in SpotBlocks : ~Spot(r, d, z, j, c, o)
  PROVE  OneSpot(r, d, z, o) /\ ~Somewhere(r, d, z, o)
<1>1. \A c \in ObjectBlocks : Lies(r, d, c)[o] <= 1
  <2>1. SUFFICES ASSUME NEW c \in ObjectBlocks PROVE Lies(r, d, c)[o] <= 1
    OBVIOUS
  <2>2. ~Spot(r, d, z, NoId, c, o)
    BY DEF SpotIds, SpotBlocks
  <2>3. Lies(r, d, c)[o] \in Nat /\ ~(Lies(r, d, c)[o] > 0)
    BY <2>2, LiesIs DEF Spot
  <2>4. QED
    BY <2>3
<1>2. QED
  BY <1>1 DEF OneSpot, Somewhere

(* What PlacedInv says of one object.                                      *)
LEMMA PlacedIs ==
  ASSUME ObjectsInv, PlacedInv, NEW o \in Objects, fate[o] \in Tracked
  PROVE  /\ OneSpot(mapblock, database, sao, o) /\ OneEntry(mapblock, o)
         /\ DiskIsTrue(mapblock, database, o)
         /\ fate[o] = "living" <=> Somewhere(mapblock, database, sao, o)
         /\ \A i \in ObjectIds : sao[i].who = o => /\ fate[o] # "unborn"
                                                   /\ fate[o] = "living" => ~sao[i].removal
         /\ \A i \in ObjectIds : sao[i].who = o /\ ~sao[i].removal /\ ~sao[i].deactivation
                                   => fate[o] = "living"
         /\ \A b \in ObjectBlocks :
              /\ Lies(mapblock, database, b)[o] \in 0 .. 1
              /\ Lies(mapblock, database, b)[o] > 0 => fate[o] = "living"
              /\ \A i \in ObjectIds : mapblock[b].active[i] = o => sao[i].who = o
              /\ \A i \in ObjectIds : mapblock[b].active[i] = o /\ sao[i].deactivation
                                        => fate[o] = "living"
<1>1. /\ OneSpot(mapblock, database, sao, o) /\ OneEntry(mapblock, o)
      /\ Stories(mapblock, database, sao, fate[o], o) /\ DiskIsTrue(mapblock, database, o)
  BY DEF PlacedInv, Placed
<1>2. ASSUME NEW i \in ObjectIds, sao[i].who = o, ~sao[i].removal, ~sao[i].deactivation
      PROVE  fate[o] = "living"
  <2>1. Spot(mapblock, database, sao, i, NoBlock, o)
    BY <1>2 DEF Spot
  <2>2. QED
    BY <1>1, <2>1 DEF Stories, Somewhere, SpotIds, SpotBlocks
<1>3. ASSUME NEW b \in ObjectBlocks
      PROVE  /\ Lies(mapblock, database, b)[o] \in 0 .. 1
             /\ Lies(mapblock, database, b)[o] > 0 => fate[o] = "living"
             /\ \A i \in ObjectIds : mapblock[b].active[i] = o => sao[i].who = o
             /\ \A i \in ObjectIds : mapblock[b].active[i] = o /\ sao[i].deactivation
                                       => fate[o] = "living"
  <2>1. Memory(mapblock) /\ Disk(database) /\ Entered(mapblock, sao) /\ o # NoObject
    BY ActiveObjectsAssumption DEF ObjectsInv
  <2>2. Lies(mapblock, database, b)[o] \in Nat /\ Lies(mapblock, database, b)[o] <= 1
    BY <1>1, <2>1, LiesIs DEF OneSpot
  <2>3. ASSUME Lies(mapblock, database, b)[o] > 0 PROVE fate[o] = "living"
    <3>1. Spot(mapblock, database, sao, NoId, b, o)
      BY <2>3 DEF Spot
    <3>2. QED
      BY <1>1, <3>1 DEF Stories, Somewhere, SpotIds, SpotBlocks
  <2>4. ASSUME NEW i \in ObjectIds, mapblock[b].active[i] = o
        PROVE  sao[i].who = o
    BY <2>1, <2>4 DEF Entered
  <2>5. ASSUME NEW i \in ObjectIds, mapblock[b].active[i] = o, sao[i].deactivation
        PROVE  fate[o] = "living"
    <3>1. Spot(mapblock, database, sao, i, b, o)
      BY <2>5 DEF Spot
    <3>2. QED
      BY <1>1, <3>1 DEF Stories, Somewhere, SpotIds, SpotBlocks
  <2>6. QED
    BY <2>2, <2>3, <2>4, <2>5
<1>4. \A i \in ObjectIds : sao[i].who = o => /\ fate[o] # "unborn"
                                             /\ fate[o] = "living" => ~sao[i].removal
  BY <1>1 DEF Stories
<1>5. QED
  BY <1>1, <1>2, <1>3, <1>4 DEF Stories

LEMMA OthersStay ==
  ASSUME ObjectsInv, PlacedInv, NEW i \in ObjectIds, NEW o, NEW c, NEW c2,
         Changed(mapblock, database, mapblock', i, o, c, c2), database' = database,
         \A j \in ObjectIds : j # i => sao'[j] = sao[j],
         sao[i].who \in {o, NoObject}, sao'[i].who \in {o, NoObject},
         NEW x \in Objects, x # o
  PROVE  Placed(mapblock', database', sao', fate[x], x)
<1>1. Memory(mapblock) /\ Disk(database) /\ Entered(mapblock, sao) /\ x # NoObject
  BY ActiveObjectsAssumption DEF ObjectsInv
<1>2. ASSUME NEW b \in ObjectBlocks
      PROVE  /\ Lies(mapblock', database', b)[x] = Lies(mapblock, database, b)[x]
             /\ OnDisk(mapblock', b) => OnDisk(mapblock, b)
             /\ \A j \in ObjectIds : mapblock'[b].active[j] = x <=> mapblock[b].active[j] = x
             /\ mapblock[b].active[i] # x
  <2>1. Lies(mapblock, database, b)[x] \in Nat
    BY <1>1, LiesIs
  <2>2. Lies(mapblock', database, b)[x] = Lies(mapblock, database, b)[x] + 0
    BY DEF Changed
  <2>3. mapblock[b].active[i] # x
    BY <1>1 DEF Entered
  <2>4. QED
    BY <1>1, <2>1, <2>2, <2>3 DEF Changed
<1>3. Alike(mapblock, database, sao, mapblock', database', sao', x)
  BY <1>1, <1>2 DEF Alike
<1>4. QED
  BY <1>3, AlikePlaced DEF PlacedInv

LEMMA Add_Placed ==
  ASSUME ObjectsInv, ObjectsInv', PlacedInv, NEW o \in Objects, NEW b \in ObjectBlocks,
         addActiveObject(o, b)
  PROVE  PlacedInv'
<1>1. PICK i \in ObjectIds :
           /\ i \notin Instances /\ sao' = [sao EXCEPT ![i] = Registered(o, b)]
           /\ Changed(mapblock, database, mapblock', i, o, b, NoBlock)
           /\ ~OnDisk(mapblock', b)
  BY AddIs
<1>2. /\ database' = database /\ fate[o] = "unborn" /\ fate' = [fate EXCEPT ![o] = "living"]
      /\ Memory(mapblock) /\ Disk(database) /\ NoBlock \notin ObjectBlocks
      /\ NoObject \notin Objects /\ NoId \notin ObjectIds /\ fate \in [Objects -> Fates]
  BY ActiveObjectsAssumption DEF addActiveObject, ObjectsInv
<1>3. /\ sao'[i].who = o /\ ~sao'[i].removal /\ ~sao'[i].deactivation
      /\ sao[i].who = NoObject /\ \A j \in ObjectIds : j # i => sao'[j] = sao[j]
  BY <1>1 DEF ObjectsInv, Instanced, Registered, NoSao, Instances
<1>4. ASSUME NEW x \in Objects, x # o PROVE Placed(mapblock', database', sao', fate'[x], x)
  <2>1. Placed(mapblock', database', sao', fate[x], x)
    BY <1>1, <1>2, <1>3, <1>4, OthersStay
  <2>2. fate'[x] = fate[x]
    BY <1>2, <1>4
  <2>3. QED
    BY <2>1, <2>2
<1>5. /\ \A j \in ObjectIds : sao[j].who # o
      /\ \A c \in ObjectBlocks : /\ Lies(mapblock, database, c)[o] = 0
                                 /\ \A j \in ObjectIds : mapblock[c].active[j] # o
      /\ DiskIsTrue(mapblock, database, o)
  BY <1>2, PlacedIs DEF Tracked
<1>6. ASSUME NEW c \in ObjectBlocks
      PROVE  /\ Lies(mapblock', database, c)[o] = 0
             /\ \A j \in ObjectIds : mapblock'[c].active[j] = o <=> j = i /\ c = b
             /\ OnDisk(mapblock', c) => OnDisk(mapblock, c) /\ c # b
  <2>1. Lies(mapblock', database, c)[o] = Lies(mapblock, database, c)[o] + 0
    BY <1>1, <1>2 DEF Changed
  <2>2. QED
    BY <1>1, <1>2, <1>5, <2>1 DEF Changed
<1>7. \A j \in SpotIds, c \in SpotBlocks :
        Spot(mapblock', database', sao', j, c, o) <=> j = i /\ c = NoBlock
  BY <1>2, <1>3, <1>5, <1>6 DEF Spot, SpotIds, SpotBlocks
<1>8. OneSpot(mapblock', database', sao', o) /\ Somewhere(mapblock', database', sao', o)
  BY <1>2, <1>6, <1>7, SpotMoved DEF SpotIds, SpotBlocks
<1>9. OneEntry(mapblock', o)
  BY <1>6 DEF OneEntry
<1>10. Stories(mapblock', database', sao', "living", o)
  BY <1>3, <1>5, <1>8 DEF Stories
<1>11. DiskIsTrue(mapblock', database', o)
  <2>1. SUFFICES ASSUME NEW c \in ObjectBlocks, OnDisk(mapblock', c)
                 PROVE  database[c].objects[o] = Held(mapblock', database, c, o)
    BY <1>2 DEF DiskIsTrue
  <2>2. database[c].objects[o] = Held(mapblock, database, c, o)
    BY <1>5, <1>6, <2>1 DEF DiskIsTrue
  <2>3. QED
    BY <1>5, <1>6, <2>1, <2>2 DEF Held, HasEntry
<1>12. Placed(mapblock', database', sao', fate'[o], o)
  <2>1. fate'[o] = "living"
    BY <1>2
  <2>2. QED
    BY <1>8, <1>9, <1>10, <1>11, <2>1 DEF Placed
<1>13. QED
  BY <1>4, <1>12 DEF PlacedInv

LEMMA Resave_Placed ==
  ASSUME ObjectsInv, ObjectsInv', PlacedInv, NEW i \in ObjectIds, ResaveStatic(i)
  PROVE  PlacedInv'
<1> DEFINE o == sao[i].who
<1>1. /\ i \in Instances /\ ~Gone(i)
      /\ \E c \in SpotBlocks : \E st \in SpotBlocks : Resaved(i, sao[i], c, st)
  BY ResaveIs
<1>2. PICK c \in SpotBlocks : \E st \in SpotBlocks : Resaved(i, sao[i], c, st)
  BY <1>1
<1>3. PICK st \in SpotBlocks : Resaved(i, sao[i], c, st)
  BY <1>2
<1>4. /\ database' = database /\ fate' = fate
      /\ Memory(mapblock) /\ Disk(database) /\ NoBlock \notin ObjectBlocks
      /\ NoObject \notin Objects /\ NoId \notin ObjectIds /\ o \in Objects
  BY <1>1, InstanceIs, ActiveObjectsAssumption DEF ResaveStatic, ObjectsInv
<1>5. /\ sao' = [sao EXCEPT ![i].static = st]
      /\ Changed(mapblock, database, mapblock', i, o, c, NoBlock)
      /\ \A b \in ObjectBlocks :
           b = c \/ mapblock[b].active[i] # NoObject => ~OnDisk(mapblock', b)
  BY <1>3 DEF Resaved
<1>6. /\ \A j \in ObjectIds : j # i => sao'[j] = sao[j]
      /\ \A j \in ObjectIds : /\ sao'[j].who = sao[j].who /\ sao'[j].removal = sao[j].removal
                              /\ sao'[j].deactivation = sao[j].deactivation
  <2>1. sao \in [ObjectIds -> SaoType]
    BY DEF ObjectsInv, Instanced
  <2>2. QED
    BY <1>5, <2>1 DEF SaoType
<1>7. ~sao[i].removal /\ ~sao[i].deactivation
  BY <1>1 DEF Gone
<1> HIDE DEF o
<1>8. ASSUME NEW x \in Objects, x # o PROVE Placed(mapblock', database', sao', fate'[x], x)
  BY <1>4, <1>5, <1>6, <1>8, OthersStay DEF o
<1>9. ASSUME fate[o] \in Tracked PROVE Placed(mapblock', database', sao', fate'[o], o)
  <2>1. /\ OneSpot(mapblock, database, sao, o) /\ OneEntry(mapblock, o)
        /\ Stories(mapblock, database, sao, fate[o], o) /\ DiskIsTrue(mapblock, database, o)
    BY <1>4, <1>9 DEF PlacedInv, Placed
  <2>2. fate[o] = "living"
    BY <1>4, <1>7, <1>9, PlacedIs DEF o
  <2>3. \A j \in ObjectIds : j # i => ~(sao[j].who = o /\ ~sao[j].deactivation)
    <3>1. SUFFICES ASSUME NEW j \in ObjectIds, j # i, sao[j].who = o, ~sao[j].deactivation
                   PROVE  FALSE
      OBVIOUS
    <3>2. ~sao[j].removal
      BY <2>1, <2>2, <3>1 DEF Stories
    <3>3. Spot(mapblock, database, sao, i, NoBlock, o) /\ Spot(mapblock, database, sao, j, NoBlock, o)
      BY <1>7, <3>1, <3>2 DEF Spot, o
    <3>4. QED
      BY <2>1, <3>1, <3>3 DEF OneSpot, SpotIds, SpotBlocks
  <2>4. \A j \in ObjectIds, b \in ObjectBlocks : j # i => mapblock[b].active[j] # o
    <3>1. SUFFICES ASSUME NEW j \in ObjectIds, NEW b \in ObjectBlocks, j # i, mapblock[b].active[j] = o
                   PROVE  FALSE
      OBVIOUS
    <3>2. sao[j].who = o
      BY <1>4, <1>9, <3>1, PlacedIs
    <3>3. sao[j].deactivation
      BY <2>3, <3>1, <3>2
    <3>4. Spot(mapblock, database, sao, i, NoBlock, o) /\ Spot(mapblock, database, sao, j, b, o)
      BY <1>7, <3>1, <3>3 DEF Spot, o
    <3>5. QED
      BY <2>1, <3>1, <3>4 DEF OneSpot, SpotIds, SpotBlocks
  <2>5. ASSUME NEW b \in ObjectBlocks
        PROVE  /\ Lies(mapblock', database, b)[o] = Lies(mapblock, database, b)[o]
               /\ \A j \in ObjectIds : mapblock'[b].active[j] = o => j = i
               /\ OnDisk(mapblock', b) => /\ OnDisk(mapblock, b)
                                          /\ \A j \in ObjectIds : /\ mapblock'[b].active[j] # o
                                                                  /\ mapblock[b].active[j] # o
    <3>1. Lies(mapblock', database, b)[o] = Lies(mapblock, database, b)[o] + 0
      BY <1>4, <1>5 DEF Changed
    <3>2. Lies(mapblock, database, b)[o] \in Nat
      BY <1>4, LiesIs
    <3>3. \A j \in ObjectIds : j # i => mapblock'[b].active[j] # o
      BY <1>5, <2>4 DEF Changed
    <3>4. OnDisk(mapblock', b) => /\ OnDisk(mapblock, b) /\ b # c
                                  /\ mapblock[b].active[i] = NoObject
      BY <1>5 DEF Changed
    <3>5. OnDisk(mapblock', b) => mapblock'[b].active[i] = NoObject
      BY <1>5, <3>4 DEF Changed
    <3>6. QED
      BY <1>4, <2>4, <3>1, <3>2, <3>3, <3>4, <3>5
  <2>6. \A j \in SpotIds, b \in SpotBlocks :
          Spot(mapblock', database', sao', j, b, o) <=> Spot(mapblock, database, sao, j, b, o)
    BY <1>4, <1>6, <1>7, <2>4, <2>5 DEF Spot, SpotIds, SpotBlocks
  <2>7. OneSpot(mapblock', database', sao', o)
    BY <1>4, <2>1, <2>5, <2>6 DEF OneSpot
  <2>8. Stories(mapblock', database', sao', fate'[o], o)
    BY <1>4, <1>6, <2>1, <2>6 DEF Stories, Somewhere
  <2>9. OneEntry(mapblock', o)
    BY <2>5 DEF OneEntry
  <2>10. DiskIsTrue(mapblock', database', o)
    <3>1. SUFFICES ASSUME NEW b \in ObjectBlocks, OnDisk(mapblock', b)
                   PROVE  database[b].objects[o] = Held(mapblock', database, b, o)
      BY <1>4 DEF DiskIsTrue
    <3>2. database[b].objects[o] = Held(mapblock, database, b, o)
      BY <2>1, <2>5, <3>1 DEF DiskIsTrue
    <3>3. QED
      BY <2>5, <3>1, <3>2 DEF Held, HasEntry
  <2>11. QED
    BY <2>7, <2>8, <2>9, <2>10 DEF Placed
<1>10. QED
  BY <1>4, <1>8, <1>9, OtherFate DEF PlacedInv

(* An object that is somewhere is nowhere else.                            *)
LEMMA StaysAlone ==
  ASSUME ObjectsInv, PlacedInv, NEW i \in ObjectIds, NEW o \in Objects, sao[i].who = o,
         ~sao[i].removal, ~sao[i].deactivation, fate[o] \in Tracked
  PROVE  /\ fate[o] = "living"
         /\ \A b \in ObjectBlocks : Lies(mapblock, database, b)[o] = 0
         /\ \A b \in ObjectBlocks, j \in ObjectIds : mapblock[b].active[j] = o => j = i
         /\ \A j \in ObjectIds : j # i => ~(sao[j].who = o /\ ~sao[j].deactivation)
<1>1. /\ OneSpot(mapblock, database, sao, o) /\ Spot(mapblock, database, sao, i, NoBlock, o)
      /\ fate[o] = "living" /\ NoBlock \notin ObjectBlocks /\ NoId \notin ObjectIds
  BY PlacedIs, ActiveObjectsAssumption DEF Spot
<1>2. ASSUME NEW b \in ObjectBlocks PROVE Lies(mapblock, database, b)[o] = 0
  <2>1. Lies(mapblock, database, b)[o] \in 0 .. 1
    BY PlacedIs
  <2>2. ~Spot(mapblock, database, sao, NoId, b, o)
    BY <1>1 DEF OneSpot, SpotIds, SpotBlocks
  <2>3. QED
    BY <2>1, <2>2 DEF Spot
<1>3. ASSUME NEW j \in ObjectIds, j # i, sao[j].who = o, ~sao[j].deactivation
      PROVE  FALSE
  <2>1. ~sao[j].removal
    BY <1>1, <1>3, PlacedIs
  <2>2. Spot(mapblock, database, sao, j, NoBlock, o)
    BY <1>3, <2>1 DEF Spot
  <2>3. QED
    BY <1>1, <1>3, <2>2 DEF OneSpot, SpotIds, SpotBlocks
<1>4. ASSUME NEW b \in ObjectBlocks, NEW j \in ObjectIds, mapblock[b].active[j] = o, j # i
      PROVE  FALSE
  <2>1. sao[j].who = o
    BY <1>4, PlacedIs
  <2>2. sao[j].deactivation
    BY <1>3, <1>4, <2>1
  <2>3. Spot(mapblock, database, sao, j, b, o)
    BY <1>4, <2>2 DEF Spot
  <2>4. QED
    BY <1>1, <1>4, <2>3 DEF OneSpot, SpotIds, SpotBlocks
<1>5. QED
  BY <1>1, <1>2, <1>3, <1>4

LEMMA WaitsAlone ==
  ASSUME ObjectsInv, PlacedInv, NEW i \in ObjectIds, NEW o \in Objects, NEW a \in ObjectBlocks,
         mapblock[a].active[i] = o, sao[i].deactivation, fate[o] \in Tracked
  PROVE  /\ fate[o] = "living"
         /\ \A b \in ObjectBlocks : Lies(mapblock, database, b)[o] = 0
         /\ \A b \in ObjectBlocks, j \in ObjectIds : mapblock[b].active[j] = o => j = i /\ b = a
         /\ \A j \in ObjectIds : ~(sao[j].who = o /\ ~sao[j].deactivation)
<1>1. /\ OneSpot(mapblock, database, sao, o) /\ Spot(mapblock, database, sao, i, a, o)
      /\ fate[o] = "living" /\ NoBlock \notin ObjectBlocks /\ NoId \notin ObjectIds
      /\ OneEntry(mapblock, o) /\ Entered(mapblock, sao) /\ o # NoObject
  BY PlacedIs, ActiveObjectsAssumption DEF Spot, ObjectsInv
<1>2. ASSUME NEW b \in ObjectBlocks PROVE Lies(mapblock, database, b)[o] = 0
  <2>1. Lies(mapblock, database, b)[o] \in 0 .. 1
    BY PlacedIs
  <2>2. ~Spot(mapblock, database, sao, NoId, b, o)
    BY <1>1 DEF OneSpot, SpotIds, SpotBlocks
  <2>3. QED
    BY <2>1, <2>2 DEF Spot
<1>3. ASSUME NEW j \in ObjectIds, sao[j].who = o, ~sao[j].deactivation
      PROVE  FALSE
  <2>1. ~sao[j].removal
    BY <1>1, <1>3, PlacedIs
  <2>2. Spot(mapblock, database, sao, j, NoBlock, o)
    BY <1>3, <2>1 DEF Spot
  <2>3. QED
    BY <1>1, <1>3, <2>2 DEF OneSpot, SpotIds, SpotBlocks
<1>4. ASSUME NEW b \in ObjectBlocks, NEW j \in ObjectIds, mapblock[b].active[j] = o
      PROVE  j = i /\ b = a
  <2>1. j = i
    BY <1>1, <1>4 DEF OneEntry
  <2>2. sao[i].static = b /\ sao[i].static = a
    BY <1>1, <1>4, <2>1 DEF Entered
  <2>3. QED
    BY <2>1, <2>2
<1>5. QED
  BY <1>1, <1>2, <1>3, <1>4

LEMMA LiesAlone ==
  ASSUME ObjectsInv, PlacedInv, NEW o \in Objects, NEW a \in ObjectBlocks,
         Lies(mapblock, database, a)[o] > 0, fate[o] \in Tracked
  PROVE  /\ fate[o] = "living" /\ Lies(mapblock, database, a)[o] = 1
         /\ \A b \in ObjectBlocks : b # a => Lies(mapblock, database, b)[o] = 0
         /\ \A b \in ObjectBlocks, j \in ObjectIds : mapblock[b].active[j] # o
         /\ \A j \in ObjectIds : ~(sao[j].who = o /\ ~sao[j].deactivation)
<1>1. /\ OneSpot(mapblock, database, sao, o) /\ Spot(mapblock, database, sao, NoId, a, o)
      /\ fate[o] = "living" /\ NoBlock \notin ObjectBlocks /\ NoId \notin ObjectIds
  BY PlacedIs, ActiveObjectsAssumption DEF Spot
<1>2. ASSUME NEW b \in ObjectBlocks, b # a PROVE Lies(mapblock, database, b)[o] = 0
  <2>1. Lies(mapblock, database, b)[o] \in 0 .. 1
    BY PlacedIs
  <2>2. ~Spot(mapblock, database, sao, NoId, b, o)
    BY <1>1, <1>2 DEF OneSpot, SpotIds, SpotBlocks
  <2>3. QED
    BY <2>1, <2>2 DEF Spot
<1>3. Lies(mapblock, database, a)[o] = 1
  <2>1. Lies(mapblock, database, a)[o] \in 0 .. 1
    BY PlacedIs
  <2>2. QED
    BY <2>1
<1>4. ASSUME NEW j \in ObjectIds, sao[j].who = o, ~sao[j].deactivation
      PROVE  FALSE
  <2>1. ~sao[j].removal
    BY <1>1, <1>4, PlacedIs
  <2>2. Spot(mapblock, database, sao, j, NoBlock, o)
    BY <1>4, <2>1 DEF Spot
  <2>3. QED
    BY <1>1, <2>2 DEF OneSpot, SpotIds, SpotBlocks
<1>5. ASSUME NEW b \in ObjectBlocks, NEW j \in ObjectIds, mapblock[b].active[j] = o
      PROVE  FALSE
  <2>1. sao[j].who = o
    BY <1>5, PlacedIs
  <2>2. sao[j].deactivation
    BY <1>4, <2>1
  <2>3. Spot(mapblock, database, sao, j, b, o)
    BY <1>5, <2>2 DEF Spot
  <2>4. QED
    BY <1>1, <2>3 DEF OneSpot, SpotIds, SpotBlocks
<1>6. QED
  BY <1>1, <1>2, <1>3, <1>4, <1>5

(* It becomes static, in c2, or waits for that with an entry in c.         *)
LEMMA MovesTo ==
  ASSUME ObjectsInv, ObjectsInv', PlacedInv, NEW i \in ObjectIds, NEW o \in Objects,
         NEW c \in SpotBlocks, NEW c2 \in SpotBlocks,
         Changed(mapblock, database, mapblock', i, o, c, c2), database' = database,
         fate[o] = "living",
         \A b \in ObjectBlocks : Lies(mapblock, database, b)[o] = 0,
         \A b \in ObjectBlocks, j \in ObjectIds : mapblock[b].active[j] = o => j = i,
         \A j \in ObjectIds : j # i => ~(sao[j].who = o /\ ~sao[j].deactivation),
         \A j \in ObjectIds : j # i => sao'[j] = sao[j],
         \/ c = NoBlock /\ c2 \in ObjectBlocks /\ sao'[i] = NoSao
         \/ /\ c2 = NoBlock /\ c \in ObjectBlocks
            /\ sao'[i].deactivation /\ ~sao'[i].removal /\ sao'[i].who = o,
         DiskIsTrue(mapblock', database', o)
  PROVE  Placed(mapblock', database', sao', "living", o)
<1>1. /\ NoBlock \notin ObjectBlocks /\ NoObject \notin Objects /\ NoId \notin ObjectIds
      /\ NoSao.who = NoObject
  BY ActiveObjectsAssumption DEF NoSao
<1>2. ASSUME NEW b \in ObjectBlocks
      PROVE  /\ Lies(mapblock', database', b)[o] = IF b = c2 THEN 1 ELSE 0
             /\ \A j \in ObjectIds : mapblock'[b].active[j] = o <=> j = i /\ b = c
  <2>1. Lies(mapblock', database', b)[o] = 0 + IF b = c2 THEN 1 ELSE 0
    BY DEF Changed
  <2>2. QED
    BY <1>1, <2>1 DEF Changed
<1>3. \A j \in ObjectIds : ~(sao'[j].who = o /\ ~sao'[j].deactivation)
  BY <1>1
<1>4. OneSpot(mapblock', database', sao', o) /\ Somewhere(mapblock', database', sao', o)
  <2>1. CASE c = NoBlock /\ c2 \in ObjectBlocks
    <3>1. \A j \in SpotIds, b \in SpotBlocks :
            Spot(mapblock', database', sao', j, b, o) <=> j = NoId /\ b = c2
      BY <1>1, <1>2, <1>3, <2>1 DEF Spot, SpotIds, SpotBlocks
    <3>2. /\ NoId \in SpotIds
          /\ \A b \in ObjectBlocks : Lies(mapblock', database', b)[o] <= 1
      BY <1>2 DEF SpotIds
    <3>3. QED
      BY <3>1, <3>2, SpotMoved
  <2>2. CASE c2 = NoBlock /\ c \in ObjectBlocks
    <3>1. \A j \in SpotIds, b \in SpotBlocks :
            Spot(mapblock', database', sao', j, b, o) <=> j = i /\ b = c
      BY <1>1, <1>2, <1>3, <2>2 DEF Spot, SpotIds, SpotBlocks
    <3>2. QED
      BY <1>2, <3>1, SpotMoved DEF SpotIds
  <2>3. QED
    BY <2>1, <2>2
<1>5. OneEntry(mapblock', o)
  BY <1>2 DEF OneEntry
<1>6. \A j \in ObjectIds : sao'[j].who = o => ~sao'[j].removal
  BY <1>1, PlacedIs DEF Tracked
<1>7. QED
  BY <1>4, <1>5, <1>6 DEF Placed, Stories

(* On disk it is as it was where a block whose entries change is to be     *)
(* written.                                                                *)
LEMMA WrittenLater ==
  ASSUME ObjectsInv, NEW i \in ObjectIds, NEW o \in Objects, NEW c, NEW c2,
         Changed(mapblock, database, mapblock', i, o, c, c2), database' = database,
         DiskIsTrue(mapblock, database, o),
         \A b \in ObjectBlocks :
            b = c \/ b = c2 \/ mapblock[b].active[i] # NoObject => ~OnDisk(mapblock', b)
  PROVE  DiskIsTrue(mapblock', database', o)
<1>1. SUFFICES ASSUME NEW b \in ObjectBlocks, OnDisk(mapblock', b)
               PROVE  database[b].objects[o] = Held(mapblock', database, b, o)
  BY DEF DiskIsTrue
<1>2. b # c /\ b # c2 /\ mapblock[b].active[i] = NoObject /\ OnDisk(mapblock, b)
  BY <1>1 DEF Changed
<1>3. database[b].objects[o] = Held(mapblock, database, b, o)
  BY <1>2 DEF DiskIsTrue
<1>4. Lies(mapblock', database, b)[o] = Lies(mapblock, database, b)[o] + 0
  BY <1>2 DEF Changed
<1>5. Lies(mapblock, database, b)[o] \in Nat
  BY LiesIs DEF ObjectsInv
<1>6. \A j \in ObjectIds : mapblock'[b].active[j] = mapblock[b].active[j]
  BY <1>2 DEF Changed
<1>7. QED
  BY <1>3, <1>4, <1>5, <1>6 DEF Held, HasEntry

(* An object that was removed, or never was, has entries at most.          *)
LEMMA GoesAway ==
  ASSUME ObjectsInv, ObjectsInv', PlacedInv, NEW i \in ObjectIds, NEW o \in Objects,
         Changed(mapblock, database, mapblock', i, o, NoBlock, NoBlock), database' = database,
         fate[o] = "removed",
         \A j \in ObjectIds : j # i => sao'[j] = sao[j],
         ~(sao'[i].who = o /\ ~sao'[i].removal),
         DiskIsTrue(mapblock', database', o)
  PROVE  Placed(mapblock', database', sao', "removed", o)
<1>1. /\ NoBlock \notin ObjectBlocks /\ o # NoObject /\ fate[o] \in Tracked /\ NoId \notin ObjectIds
  BY ActiveObjectsAssumption DEF Tracked
<1>2. ASSUME NEW b \in ObjectBlocks
      PROVE  /\ ~(Lies(mapblock', database', b)[o] > 0)
             /\ \A j \in ObjectIds : mapblock'[b].active[j] = o
                                       => j # i /\ mapblock[b].active[j] = o
  <2>1. Lies(mapblock', database', b)[o] = Lies(mapblock, database, b)[o] + 0
    BY <1>1 DEF Changed
  <2>2. Lies(mapblock, database, b)[o] \in 0 .. 1 /\ ~(Lies(mapblock, database, b)[o] > 0)
    BY <1>1, PlacedIs
  <2>3. QED
    BY <1>1, <2>1, <2>2 DEF Changed
<1>3. \A j \in ObjectIds : /\ ~(sao[j].who = o /\ ~sao[j].removal /\ ~sao[j].deactivation)
                           /\ \A b \in ObjectBlocks :
                                ~(mapblock[b].active[j] = o /\ sao[j].deactivation)
  BY <1>1, PlacedIs
<1>4. \A j \in SpotIds, b \in SpotBlocks : ~Spot(mapblock', database', sao', j, b, o)
  BY <1>1, <1>2, <1>3 DEF Spot, SpotIds, SpotBlocks
<1>5. OneSpot(mapblock', database', sao', o) /\ ~Somewhere(mapblock', database', sao', o)
  BY <1>1, <1>4, NoSpotLeft DEF ObjectsInv
<1>6. OneEntry(mapblock', o)
  <2>1. OneEntry(mapblock, o)
    BY <1>1, PlacedIs
  <2>2. QED
    BY <1>2, <2>1 DEF OneEntry
<1>7. QED
  BY <1>5, <1>6 DEF Placed, Stories

LEMMA Deactivate_Placed ==
  ASSUME ObjectsInv, ObjectsInv', PlacedInv, NEW i \in ObjectIds, Deactivate(i)
  PROVE  PlacedInv'
<1> DEFINE o == sao[i].who
           a == sao[i].at
<1>1. PICK c \in SpotBlocks : \E c2 \in SpotBlocks : \E w \in BOOLEAN :
         Deactivated(i, sao[i], c, c2, w)
  BY DeactivateIs
<1>2. PICK c2 \in SpotBlocks : \E w \in BOOLEAN : Deactivated(i, sao[i], c, c2, w)
  BY <1>1
<1>3. PICK w \in BOOLEAN : Deactivated(i, sao[i], c, c2, w)
  BY <1>2
<1>4. /\ i \in Instances /\ (loop.force \/ ~Gone(i)) /\ database' = database
      /\ Memory(mapblock) /\ Disk(database) /\ NoBlock \notin ObjectBlocks
      /\ NoObject \notin Objects /\ NoId \notin ObjectIds /\ o \in Objects /\ a \in ObjectBlocks
      /\ Entered(mapblock, sao) /\ sao \in [ObjectIds -> SaoType] /\ fate \in [Objects -> Fates]
  <2>1. i \in Instances /\ (loop.force \/ ~Gone(i))
    BY DeactivateIs
  <2>2. QED
    BY <2>1, InstanceIs, ActiveObjectsAssumption DEF Deactivate, ObjectsInv, Instanced
<1>5. /\ Changed(mapblock, database, mapblock', i, o, c, c2)
      /\ ~w => sao[i].static = a /\ mapblock[a].active[i] # NoObject
      /\ w => \A b \in ObjectBlocks :
                b = c \/ b = c2 \/ mapblock[b].active[i] # NoObject => ~OnDisk(mapblock', b)
      /\ \/ /\ c = NoBlock /\ c2 = NoBlock /\ Leaves(i)
            /\ fate' = [fate EXCEPT ![o] = IF @ = "living" THEN "lost"
                                           ELSE IF @ = "removed" /\ ~w THEN "undead" ELSE @]
         \/ /\ \/ c = a /\ c2 = NoBlock /\ ~loop.force /\ Waits(i, sao[i])
               \/ c = NoBlock /\ c2 = a /\ Leaves(i)
            /\ fate' = [fate EXCEPT ![o] = IF @ = "removed" THEN "undead"
                                           ELSE IF sao[i].deactivation /\ NotEntered(mapblock, i)
                                                THEN "doubled" ELSE @]
  BY <1>3 DEF Deactivated
<1>6. NoSao.who = NoObject /\ NoSao.removal = FALSE
  BY DEF NoSao
<1>7. /\ \A j \in ObjectIds : j # i => sao'[j] = sao[j]
      /\ Leaves(i) => sao'[i] = NoSao
      /\ Waits(i, sao[i]) => /\ sao'[i].who = o /\ sao'[i].deactivation
                             /\ sao'[i].removal = sao[i].removal
  <2>1. Leaves(i) => sao'[i] = NoSao /\ \A j \in ObjectIds : j # i => sao'[j] = sao[j]
    BY <1>4 DEF Leaves
  <2>2. ASSUME Waits(i, sao[i])
        PROVE  /\ \A j \in ObjectIds : j # i => sao'[j] = sao[j]
               /\ sao'[i].who = o /\ sao'[i].deactivation /\ sao'[i].removal = sao[i].removal
    <3>1. sao[i] \in SaoType
      BY <1>4
    <3>2. /\ \A j \in ObjectIds : j # i => sao'[j] = sao[j]
          /\ sao'[i] = [sao[i] EXCEPT !.static = a, !.deactivation = TRUE]
      BY <1>4, <2>2 DEF Waits
    <3>3. QED
      BY <3>1, <3>2 DEF SaoType
  <2>3. QED
    BY <1>5, <2>1, <2>2
<1>8. sao'[i].who \in {o, NoObject}
  BY <1>5, <1>6, <1>7
<1>9. ASSUME NEW x \in Objects, x # o PROVE Placed(mapblock', database', sao', fate'[x], x)
  <2>1. fate'[x] = fate[x]
    BY <1>4, <1>5, <1>9
  <2> HIDE DEF o
  <2>2. Placed(mapblock', database', sao', fate[x], x)
    BY <1>4, <1>5, <1>7, <1>8, <1>9, OthersStay DEF o
  <2>3. QED
    BY <2>1, <2>2
<1>10. ASSUME fate'[o] \in Tracked, fate[o] \in Tracked
       PROVE  Placed(mapblock', database', sao', fate'[o], o)
  <2>1. DiskIsTrue(mapblock, database, o) /\ OneEntry(mapblock, o) /\ fate[o] # "unborn"
    BY <1>4, <1>10, PlacedIs
  <2>2. DiskIsTrue(mapblock', database', o)
    <3>1. CASE w
      <4> HIDE DEF o
      <4>1. QED
        BY <1>4, <1>5, <2>1, <3>1, WrittenLater
    <3>2. CASE ~w
      <4>1. sao[i].static = a /\ mapblock[a].active[i] = o
        BY <1>4, <1>5, <3>2 DEF Entered
      <4>2. \A b \in ObjectBlocks, j \in ObjectIds : mapblock[b].active[j] = o => j = i /\ b = a
        BY <1>4, <2>1, <4>1 DEF OneEntry, Entered
      <4>3. c = a \/ c2 = a
        BY <1>4, <1>5, <1>10, <2>1, <3>2 DEF Tracked
      <4>4. c2 = a \/ (c = a /\ c2 = NoBlock)
        BY <1>4, <1>5, <4>3
      <4>5. c2 = a => c = NoBlock
        BY <1>4, <1>5
      <4> HIDE DEF o, a
      <4>6. ASSUME NEW b \in ObjectBlocks, OnDisk(mapblock', b)
            PROVE  database[b].objects[o] = Held(mapblock', database, b, o)
        <5>1. database[b].objects[o] = Held(mapblock, database, b, o)
          BY <2>1, <1>5, <4>6 DEF DiskIsTrue, Changed
        <5>2. Lies(mapblock, database, b)[o] \in Nat
          BY <1>4, LiesIs
        <5>3. Lies(mapblock', database, b)[o]
                = Lies(mapblock, database, b)[o] + IF b = c2 THEN 1 ELSE 0
          BY <1>4, <1>5 DEF Changed
        <5>4. HasEntry(mapblock, b, o) <=> b = a
          BY <4>1, <4>2 DEF HasEntry
        <5>5. HasEntry(mapblock', b, o) <=> b = c
          <6>1. \A j \in ObjectIds : mapblock'[b].active[j] = o <=> j = i /\ b = c
            BY <1>4, <1>5, <4>2 DEF Changed
          <6>2. QED
            BY <6>1 DEF HasEntry
        <5>6. QED
          BY <1>4, <4>4, <4>5, <5>1, <5>2, <5>3, <5>4, <5>5 DEF Held
      <4>7. QED
        BY <1>4, <4>6 DEF DiskIsTrue
    <3>3. QED
      BY <3>1, <3>2
  <2>3. CASE fate[o] = "removed"
    <3>1. c = NoBlock /\ c2 = NoBlock /\ Leaves(i) /\ fate'[o] = "removed"
      BY <1>4, <1>5, <1>10, <2>3 DEF Tracked
    <3> HIDE DEF o
    <3>2. \A j \in ObjectIds : j # i => sao'[j] = sao[j]
      BY <1>7
    <3>3. sao'[i].who # o
      BY <1>4, <1>6, <1>7, <3>1 DEF o
    <3>4. QED
      BY <1>4, <1>5, <2>2, <2>3, <3>1, <3>2, <3>3, GoesAway
  <2>4. CASE fate[o] = "living"
    <3>1. /\ fate'[o] = "living" /\ ~(sao[i].deactivation /\ NotEntered(mapblock, i))
          /\ \/ c = a /\ c2 = NoBlock /\ ~loop.force /\ Waits(i, sao[i])
             \/ c = NoBlock /\ c2 = a /\ Leaves(i)
      BY <1>4, <1>5, <1>10, <2>4 DEF Tracked
    <3>2. ~sao[i].removal
      BY <1>4, <1>10, <2>4, PlacedIs
    <3> HIDE DEF o, a
    <3>3. /\ \A b \in ObjectBlocks : Lies(mapblock, database, b)[o] = 0
          /\ \A b \in ObjectBlocks, j \in ObjectIds : mapblock[b].active[j] = o => j = i
          /\ \A j \in ObjectIds : j # i => ~(sao[j].who = o /\ ~sao[j].deactivation)
      <4>1. CASE ~sao[i].deactivation
        BY <1>4, <1>10, <3>2, <4>1, StaysAlone DEF o
      <4>2. CASE sao[i].deactivation
        <5>1. PICK b \in ObjectBlocks : mapblock[b].active[i] = o
          BY <1>4, <3>1, <4>2 DEF NotEntered, Entered, o
        <5>2. QED
          BY <1>4, <1>10, <4>2, <5>1, WaitsAlone
      <4>3. QED
        BY <4>1, <4>2
    <3>4. \/ c = NoBlock /\ c2 \in ObjectBlocks /\ sao'[i] = NoSao
          \/ /\ c2 = NoBlock /\ c \in ObjectBlocks
             /\ sao'[i].deactivation /\ ~sao'[i].removal /\ sao'[i].who = o
      BY <1>4, <1>7, <3>1, <3>2 DEF o, a
    <3>5. QED
      BY <1>4, <1>5, <1>7, <2>2, <2>4, <3>1, <3>3, <3>4, MovesTo
  <2>5. QED
    BY <1>10, <2>1, <2>3, <2>4 DEF Tracked
<1>11. fate'[o] \in Tracked => fate[o] \in Tracked
  BY <1>4, <1>5 DEF Tracked
<1>12. Placed(mapblock', database', sao', fate'[o], o)
  BY <1>10, <1>11, OtherFate
<1> HIDE DEF o
<1>13. QED
  BY <1>9, <1>12 DEF PlacedInv

LEMMA Remove_Placed ==
  ASSUME ObjectsInv, ObjectsInv', PlacedInv, NEW i \in ObjectIds, removeRemovedObject(i)
  PROVE  PlacedInv'
<1> DEFINE o == sao[i].who
           d == sao[i].static
<1>1. /\ i \in Instances /\ Gone(i) /\ database' = database /\ fate' = fate
      /\ Memory(mapblock) /\ Disk(database) /\ NoBlock \notin ObjectBlocks
      /\ NoObject \notin Objects /\ NoId \notin ObjectIds /\ o \in Objects
      /\ Entered(mapblock, sao) /\ sao \in [ObjectIds -> SaoType]
  <2>1. i \in Instances /\ Gone(i)
    BY RemoveIs
  <2>2. QED
    BY <2>1, InstanceIs, ActiveObjectsAssumption DEF removeRemovedObject, ObjectsInv, Instanced
<1>2. NoSao.who = NoObject
  BY DEF NoSao
<1>3. ASSUME sao' = [sao EXCEPT ![i] = NoSao]
      PROVE  sao'[i] = NoSao /\ \A j \in ObjectIds : j # i => sao'[j] = sao[j]
  BY <1>1, <1>3
<1>4. CASE sao[i].removal
  <2>1. /\ Changed(mapblock, database, mapblock', i, o, NoBlock, NoBlock)
        /\ \A b \in ObjectBlocks : mapblock[b].active[i] # NoObject => ~OnDisk(mapblock', b)
        /\ \/ sao' = [sao EXCEPT ![i] = NoSao]
           \/ \E st \in ObjectBlocks \union {NoBlock} : sao' = [sao EXCEPT ![i].static = st]
    BY <1>4, RemoveIs
  <2>2. /\ \A j \in ObjectIds : j # i => sao'[j] = sao[j]
        /\ sao'[i].who \in {o, NoObject} /\ (sao'[i].who = o => sao'[i].removal)
    <3>1. CASE sao' = [sao EXCEPT ![i] = NoSao]
      BY <1>1, <1>2, <1>3, <3>1
    <3>2. ASSUME NEW st, sao' = [sao EXCEPT ![i].static = st]
          PROVE  /\ \A j \in ObjectIds : j # i => sao'[j] = sao[j]
                 /\ sao'[i].who = o /\ sao'[i].removal
      <4>1. sao[i] \in SaoType
        BY <1>1
      <4>2. sao'[i] = [sao[i] EXCEPT !.static = st] /\ \A j \in ObjectIds : j # i => sao'[j] = sao[j]
        BY <1>1, <3>2
      <4>3. QED
        BY <1>4, <4>1, <4>2 DEF SaoType
    <3>3. QED
      BY <2>1, <3>1, <3>2
  <2> HIDE DEF o
  <2>3. ASSUME NEW x \in Objects, x # o PROVE Placed(mapblock', database', sao', fate[x], x)
    BY <1>1, <2>1, <2>2, <2>3, OthersStay DEF o
  <2>4. ASSUME fate[o] \in Tracked PROVE Placed(mapblock', database', sao', fate[o], o)
    <3>1. fate[o] = "removed" /\ DiskIsTrue(mapblock, database, o)
      BY <1>1, <1>4, <2>4, PlacedIs DEF Tracked, o
    <3>2. DiskIsTrue(mapblock', database', o)
      BY <1>1, <2>1, <3>1, WrittenLater
    <3>3. QED
      BY <1>1, <2>1, <2>2, <3>1, <3>2, GoesAway
  <2>5. QED
    BY <1>1, <2>3, <2>4, OtherFate DEF PlacedInv
<1>5. CASE ~sao[i].removal /\ mapblock' = mapblock /\ sao' = sao
  BY <1>1, <1>5 DEF PlacedInv
<1>6. CASE /\ ~sao[i].removal /\ sao' = [sao EXCEPT ![i] = NoSao] /\ NotEntered(mapblock, i)
           /\ Same(mapblock, database, mapblock')
  <2>1. sao[i].deactivation
    BY <1>1, <1>6 DEF Gone
  <2>2. \A x \in Objects : Alike(mapblock, database, sao, mapblock', database', sao', x)
    BY <1>1, <1>2, <1>3, <1>6, <2>1 DEF Alike, Same, NotEntered
  <2>3. QED
    BY <1>1, <2>2, AlikePlaced DEF PlacedInv
<1>7. CASE /\ ~sao[i].removal /\ sao' = [sao EXCEPT ![i] = NoSao]
           /\ d \in ObjectBlocks /\ mapblock[d].active[i] = o
           /\ Changed(mapblock, database, mapblock', i, o, NoBlock, d)
           /\ ~OnDisk(mapblock', d)
  <2>1. sao[i].deactivation
    BY <1>1, <1>7 DEF Gone
  <2>2. \A b \in ObjectBlocks : b = NoBlock \/ b = d \/ mapblock[b].active[i] # NoObject
                                  => ~OnDisk(mapblock', b)
    BY <1>1, <1>7 DEF Entered
  <2>3. \A j \in ObjectIds : j # i => sao'[j] = sao[j]
    BY <1>3, <1>7
  <2>4. sao'[i] = NoSao
    BY <1>3, <1>7
  <2> HIDE DEF o, d
  <2>5. ASSUME NEW x \in Objects, x # o PROVE Placed(mapblock', database', sao', fate[x], x)
    BY <1>1, <1>2, <1>7, <2>3, <2>4, <2>5, OthersStay DEF o
  <2>6. ASSUME fate[o] \in Tracked PROVE Placed(mapblock', database', sao', fate[o], o)
    <3>1. /\ fate[o] = "living"
          /\ \A b \in ObjectBlocks : Lies(mapblock, database, b)[o] = 0
          /\ \A b \in ObjectBlocks, j \in ObjectIds : mapblock[b].active[j] = o => j = i
          /\ \A j \in ObjectIds : ~(sao[j].who = o /\ ~sao[j].deactivation)
      BY <1>1, <1>7, <2>1, <2>6, WaitsAlone
    <3>2. DiskIsTrue(mapblock, database, o)
      BY <1>1, <2>6, PlacedIs
    <3>3. DiskIsTrue(mapblock', database', o)
      BY <1>1, <1>7, <2>2, <3>2, WrittenLater
    <3>4. NoBlock \in SpotBlocks /\ d \in SpotBlocks
      BY <1>7 DEF SpotBlocks
    <3>5. QED
      BY <1>1, <1>7, <2>3, <2>4, <3>1, <3>3, <3>4, MovesTo
  <2>7. QED
    BY <1>1, <2>5, <2>6, OtherFate DEF PlacedInv
<1>8. QED
  BY <1>4, <1>5, <1>6, <1>7, RemoveIs

(* Steps that change no lists.                                             *)
LEMMA NoLists_Placed ==
  ASSUME ObjectsInv, PlacedInv, UNCHANGED <<sao, database, fate>>,
         \A b \in ObjectBlocks :
           /\ mapblock'[b].active = mapblock[b].active
           /\ Lies(mapblock', database, b) = Lies(mapblock, database, b)
           /\ OnDisk(mapblock', b) => OnDisk(mapblock, b)
  PROVE  PlacedInv'
<1>1. \A o \in Objects : Alike(mapblock, database, sao, mapblock', database', sao', o)
  BY DEF Alike
<1>2. QED
  BY <1>1, AlikePlaced DEF PlacedInv

LEMMA Others_Placed ==
  ASSUME ObjectsInv, PlacedInv
  PROVE  /\ (\E i \in ObjectIds : StaysActive(i)) \/ (\E l \in SUBSET ObjectBlocks : ManageActiveBlocks(l))
              => PlacedInv'
         /\ (\E b \in ObjectBlocks : BlockActivated(b) \/ loadFromDisk(b) \/ finishGenOf(b))
              => PlacedInv'
         /\ EndActivation \/ EndDeactivation \/ BeginRemoval \/ EndRemoval \/ shutdown => PlacedInv'
<1>1. Memory(mapblock) /\ Disk(database)
  BY DEF ObjectsInv
<1>2. ASSUME UNCHANGED <<sao, mapblock, database, fate>> PROVE PlacedInv'
  BY <1>2 DEF PlacedInv
<1>3. ASSUME NEW b \in ObjectBlocks, loadFromDisk(b) PROVE PlacedInv'
  <2>1. UNCHANGED <<sao, database, fate>> /\ mapblock' = Emerged(mapblock, b)
    BY <1>3 DEF loadFromDisk, Keep
  <2>2. Same(mapblock, database, mapblock')
    BY <1>1, <2>1, EmergedIs
  <2>3. QED
    BY <2>1, <2>2, NoLists_Placed DEF Same
<1>4. ASSUME NEW b \in ObjectBlocks, finishGenOf(b) PROVE PlacedInv'
  <2> DEFINE e == Emerged(mapblock, b)
  <2>1. UNCHANGED <<sao, database, fate>> /\ mapblock' = [e EXCEPT ![b].modified = TRUE]
    BY <1>4 DEF finishGenOf, Keep
  <2>2. Same(mapblock, database, e) /\ Memory(e) /\ e[b].inMemory
    BY <1>1, EmergedIs
  <2> HIDE DEF e
  <2>3. ASSUME NEW c \in ObjectBlocks
        PROVE  /\ mapblock'[c].active = e[c].active
               /\ Lies(mapblock', database, c) = Lies(e, database, c)
               /\ OnDisk(mapblock', c) => OnDisk(e, c)
    <3>1. e[c] \in BlockType /\ e \in [ObjectBlocks -> BlockType]
      BY <2>2 DEF Memory
    <3>2. CASE c = b
      <4>1. mapblock'[c] = [e[c] EXCEPT !.modified = TRUE]
        BY <2>1, <3>1, <3>2
      <4>2. mapblock'[c].active = e[c].active /\ mapblock'[c].stored = e[c].stored
            /\ mapblock'[c].inMemory /\ mapblock'[c].modified
        BY <2>2, <3>1, <3>2, <4>1 DEF BlockType
      <4>3. QED
        BY <2>2, <3>2, <4>2 DEF Lies, OnDisk
    <3>3. CASE c # b
      BY <2>1, <3>1, <3>3 DEF Lies, OnDisk
    <3>4. QED
      BY <3>2, <3>3
  <2>4. QED
    BY <2>1, <2>2, <2>3, NoLists_Placed DEF Same
<1>5. ASSUME EndDeactivation PROVE PlacedInv'
  <2>1. /\ UNCHANGED <<sao, database, fate>>
        /\ mapblock' = [b \in ObjectBlocks |->
                          IF b \in loop.removed /\ mapblock[b].inMemory
                          THEN [mapblock[b] EXCEPT !.stamp = m_game_time, !.modified = TRUE]
                          ELSE mapblock[b]]
    BY <1>5 DEF EndDeactivation
  <2>2. ASSUME NEW c \in ObjectBlocks
        PROVE  /\ mapblock'[c].active = mapblock[c].active
               /\ Lies(mapblock', database, c) = Lies(mapblock, database, c)
               /\ OnDisk(mapblock', c) => OnDisk(mapblock, c)
    <3>1. mapblock[c] \in BlockType
      BY <1>1 DEF Memory
    <3>2. CASE c \in loop.removed /\ mapblock[c].inMemory
      <4>1. mapblock'[c] = [mapblock[c] EXCEPT !.stamp = m_game_time, !.modified = TRUE]
        BY <2>1, <3>2
      <4>2. mapblock'[c].active = mapblock[c].active /\ mapblock'[c].stored = mapblock[c].stored
            /\ mapblock'[c].inMemory /\ mapblock'[c].modified
        BY <3>1, <3>2, <4>1 DEF BlockType
      <4>3. QED
        BY <3>2, <4>2 DEF Lies, OnDisk
    <3>3. CASE ~(c \in loop.removed /\ mapblock[c].inMemory)
      BY <2>1, <3>3 DEF Lies, OnDisk
    <3>4. QED
      BY <3>2, <3>3
  <2>3. QED
    BY <2>1, <2>2, NoLists_Placed
<1>6. QED
  BY <1>2, <1>3, <1>4, <1>5 DEF StaysActive, ManageActiveBlocks, BlockActivated, EndActivation,
     BeginRemoval, EndRemoval, shutdown, Untouched

LEMMA Outside_Placed ==
  ASSUME ObjectsInv, ObjectsInv', PlacedInv, NEW i \in ObjectIds,
         (\E b \in ObjectBlocks : MoveObject(i, b)) \/ KnownByClients(i) \/ markForRemoval(i)
  PROVE  PlacedInv'
<1>1. /\ UNCHANGED <<mapblock, database>> /\ sao \in [ObjectIds -> SaoType] /\ fate \in [Objects -> Fates]
      /\ Memory(mapblock) /\ Disk(database) /\ Entered(mapblock, sao) /\ i \in Instances
  BY DEF MoveObject, KnownByClients, markForRemoval, Outside, ObjectsInv, Instanced
<1>2. CASE (\E b \in ObjectBlocks : MoveObject(i, b)) \/ KnownByClients(i)
  <2>1. \A j \in ObjectIds : /\ sao'[j].who = sao[j].who /\ sao'[j].removal = sao[j].removal
                             /\ sao'[j].deactivation = sao[j].deactivation
    <3>1. \/ \E b \in ObjectBlocks : sao' = [sao EXCEPT ![i].at = b]
          \/ sao' = [sao EXCEPT ![i].known = ~@]
      BY <1>2 DEF MoveObject, KnownByClients
    <3>2. QED
      BY <1>1, <3>1 DEF SaoType
  <2>2. \A o \in Objects : Alike(mapblock, database, sao, mapblock', database', sao', o)
    BY <1>1, <2>1 DEF Alike
  <2>3. fate' = fate
    BY <1>2 DEF MoveObject, KnownByClients
  <2>4. QED
    BY <2>2, <2>3, AlikePlaced DEF PlacedInv
<1>3. CASE markForRemoval(i)
  <2> DEFINE o == sao[i].who
  <2>1. /\ sao' = [sao EXCEPT ![i].removal = TRUE] /\ ~sao[i].removal /\ ~sao[i].deactivation
        /\ fate' = [fate EXCEPT ![o] = IF @ = "living" THEN "removed" ELSE @] /\ o \in Objects
    BY <1>1, <1>3, InstanceIs DEF markForRemoval, Gone
  <2>2. \A j \in ObjectIds : /\ sao'[j].who = sao[j].who /\ sao'[j].deactivation = sao[j].deactivation
                             /\ sao'[j].removal <=> sao[j].removal \/ j = i
    BY <1>1, <2>1 DEF SaoType
  <2>3. ASSUME NEW x \in Objects, x # o PROVE Placed(mapblock', database', sao', fate'[x], x)
    <3>1. Alike(mapblock, database, sao, mapblock', database', sao', x)
      BY <1>1, <2>2, <2>3 DEF Alike
    <3>2. fate'[x] = fate[x]
      BY <1>1, <2>1, <2>3
    <3>3. QED
      BY <3>1, <3>2, AlikePlaced DEF PlacedInv
  <2>4. ASSUME fate[o] \in Tracked PROVE Placed(mapblock', database', sao', fate'[o], o)
    <3> HIDE DEF o
    <3>1. /\ fate[o] = "living"
          /\ \A b \in ObjectBlocks : Lies(mapblock, database, b)[o] = 0
          /\ \A b \in ObjectBlocks, j \in ObjectIds : mapblock[b].active[j] = o => j = i
          /\ \A j \in ObjectIds : j # i => ~(sao[j].who = o /\ ~sao[j].deactivation)
      BY <2>1, <2>4, StaysAlone DEF o
    <3>2. OneEntry(mapblock, o) /\ DiskIsTrue(mapblock, database, o)
      BY <2>1, <2>4, PlacedIs
    <3>3. fate'[o] = "removed"
      BY <1>1, <2>1, <3>1
    <3>4. \A j \in SpotIds, b \in SpotBlocks : ~Spot(mapblock', database', sao', j, b, o)
      BY <1>1, <2>1, <2>2, <3>1 DEF Spot, SpotIds, SpotBlocks
    <3>5. OneSpot(mapblock', database', sao', o) /\ ~Somewhere(mapblock', database', sao', o)
      BY <1>1, <2>1, <3>4, NoSpotLeft
    <3>6. QED
      BY <1>1, <3>2, <3>3, <3>5 DEF Placed, Stories
  <2>5. fate'[o] \in Tracked => fate[o] \in Tracked
    BY <1>1, <2>1 DEF Tracked
  <2>6. Placed(mapblock', database', sao', fate'[o], o)
    BY <2>4, <2>5, OtherFate
  <2> HIDE DEF o
  <2>7. QED
    BY <2>3, <2>6 DEF PlacedInv
<1>4. QED
  BY <1>2, <1>3

LEMMA ActivateBlock_Placed ==
  ASSUME ObjectsInv, PlacedInv, NEW b \in ObjectBlocks, activateBlock(b)
  PROVE  PlacedInv'
<1> DEFINE m     == mapblock[b]
           stale == Stale(m)
           many  == ~stale /\ NumStored(m.stored) > max_objects_per_block
           n     == [m EXCEPT !.stored = IF stale \/ many THEN Nothing ELSE @,
                              !.stamp = m_game_time, !.modified = @ \/ many]
<1>1. /\ UNCHANGED <<sao, database>> /\ Memory(mapblock) /\ Disk(database) /\ m.inMemory
      /\ mapblock \in [ObjectBlocks -> BlockType] /\ m \in BlockType
  BY DEF activateBlock, ObjectsInv, LoopInv, Memory
<1>2. /\ mapblock' = [mapblock EXCEPT ![b].stored = IF stale \/ many THEN Nothing ELSE @,
                                     ![b].stamp = m_game_time, ![b].modified = @ \/ many]
      /\ fate' = [o \in Objects |->
                   IF (stale \/ many) /\ o \in Stored(b) /\ fate[o] = "living"
                   THEN IF stale THEN "thrown" ELSE "lost" ELSE fate[o]]
  BY DEF activateBlock
<1>3. mapblock' = [mapblock EXCEPT ![b] = n]
  BY <1>1, <1>2 DEF BlockType
<1> HIDE DEF stale, many
<1>4. /\ n.active = m.active /\ n.inMemory /\ (m.modified => n.modified)
      /\ n.stored = IF stale \/ many THEN Nothing ELSE m.stored
  BY <1>1 DEF BlockType
<1> HIDE DEF n
<1>5. mapblock'[b] = n /\ \A c \in ObjectBlocks : c # b => mapblock'[c] = mapblock[c]
  BY <1>1, <1>3
<1>6. ASSUME NEW o \in Objects, fate'[o] \in Tracked
      PROVE  fate'[o] = fate[o] /\ Alike(mapblock, database, sao, mapblock', database', sao', o)
  <2>1. fate'[o] = fate[o] /\ ((stale \/ many) /\ o \in Stored(b) => fate[o] # "living")
    BY <1>2, <1>6 DEF Tracked
  <2>2. Lies(mapblock, database, b) = m.stored /\ m.stored[o] \in 0 .. 1
    BY <1>1, <1>6, <2>1, PlacedIs DEF Lies
  <2>3. o \in Stored(b) => fate[o] = "living"
    BY <1>1, <1>6, <2>1, <2>2, PlacedIs DEF Stored
  <2>4. stale \/ many => m.stored[o] = 0
    BY <2>1, <2>2, <2>3 DEF Stored
  <2>5. n.stored[o] = m.stored[o]
    BY <1>4, <2>4 DEF Nothing
  <2>6. \A c \in ObjectBlocks : /\ Lies(mapblock', database, c)[o] = Lies(mapblock, database, c)[o]
                                /\ mapblock'[c].active = mapblock[c].active
                                /\ OnDisk(mapblock', c) => OnDisk(mapblock, c)
    BY <1>1, <1>4, <1>5, <2>5 DEF Lies, OnDisk
  <2>7. QED
    BY <1>1, <2>1, <2>6 DEF Alike
<1>7. ASSUME NEW o \in Objects PROVE Placed(mapblock', database', sao', fate'[o], o)
  <2>1. CASE fate'[o] \in Tracked
    BY <1>6, <2>1, AlikePlaced DEF PlacedInv
  <2>2. CASE fate'[o] \notin Tracked
    BY <2>2, OtherFate
  <2>3. QED
    BY <2>1, <2>2
<1>8. QED
  BY <1>7 DEF PlacedInv

LEMMA ActivateObject_Placed ==
  ASSUME ObjectsInv, ObjectsInv', PlacedInv, NEW b \in ObjectBlocks, NEW o \in Objects,
         activateObject(b, o)
  PROVE  PlacedInv'
<1>1. /\ database' = database /\ Memory(mapblock) /\ Disk(database) /\ NoBlock \notin ObjectBlocks
      /\ NoObject \notin Objects /\ NoId \notin ObjectIds
      /\ sao \in [ObjectIds -> SaoType] /\ fate \in [Objects -> Fates]
      /\ mapblock[b].active \in Entries /\ mapblock[b].stored \in Counts
  <2>1. mapblock[b] \in BlockType
    BY DEF ObjectsInv, Memory
  <2>2. QED
    BY <2>1, ActiveObjectsAssumption DEF activateObject, ObjectsInv, Instanced, BlockType
<1>2. /\ mapblock[b].inMemory /\ mapblock[b].stored[o] > 0
      /\ \A c \in ObjectBlocks : c # b => mapblock'[c] = mapblock[c]
      /\ mapblock'[b].inMemory /\ mapblock'[b].modified = mapblock[b].modified
      /\ mapblock'[b].stored = [mapblock[b].stored EXCEPT ![o] = @ - 1]
  BY ActivateIs
<1>3. \A c \in ObjectBlocks : /\ \A x \in Objects : x # o =>
                                   Lies(mapblock', database, c)[x] = Lies(mapblock, database, c)[x]
                              /\ OnDisk(mapblock', c) <=> OnDisk(mapblock, c)
                              /\ c # b => Lies(mapblock', database, c) = Lies(mapblock, database, c)
  BY <1>1, <1>2 DEF Lies, OnDisk, Counts
<1>4. /\ Lies(mapblock', database, b)[o] = mapblock[b].stored[o] - 1
      /\ Lies(mapblock, database, b)[o] = mapblock[b].stored[o]
  BY <1>1, <1>2 DEF Lies, Counts
<1>5. CASE /\ mapblock'[b].active = mapblock[b].active /\ sao' = sao
           /\ fate' = [fate EXCEPT ![o] = IF @ = "living" THEN "lost" ELSE @]
  <2>1. ASSUME NEW x \in Objects, x # o PROVE Placed(mapblock', database', sao', fate'[x], x)
    <3>1. \A c \in ObjectBlocks : mapblock'[c].active = mapblock[c].active
      BY <1>2, <1>5
    <3>2. Alike(mapblock, database, sao, mapblock', database', sao', x)
      BY <1>1, <1>3, <1>5, <2>1, <3>1 DEF Alike
    <3>3. fate'[x] = fate[x]
      BY <1>1, <1>5, <2>1
    <3>4. QED
      BY <3>2, <3>3, AlikePlaced DEF PlacedInv
  <2>2. fate'[o] \notin Tracked
    <3>1. fate[o] \in Tracked => fate[o] = "living"
      BY <1>2, <1>4, LiesAlone
    <3>2. QED
      BY <1>1, <1>5, <3>1 DEF Tracked
  <2>3. QED
    BY <2>1, <2>2, OtherFate DEF PlacedInv
<1>6. ASSUME NEW i \in ObjectIds, i \notin Instances, sao' = [sao EXCEPT ![i] = Registered(o, b)],
             mapblock'[b].active = [mapblock[b].active EXCEPT ![i] = o], fate' = fate
      PROVE  PlacedInv'
  <2>1. /\ \A j \in ObjectIds : j # i => sao'[j] = sao[j]
        /\ sao'[i].who = o /\ ~sao'[i].removal /\ ~sao'[i].deactivation
        /\ sao[i].who = NoObject /\ \A c \in ObjectBlocks : mapblock[c].active[i] = NoObject
    BY <1>1, <1>6, InstanceIs DEF Registered, NoSao, Instances, NotEntered
  <2>2. \A c \in ObjectBlocks, j \in ObjectIds :
          mapblock'[c].active[j] = IF c = b /\ j = i THEN o ELSE mapblock[c].active[j]
    BY <1>1, <1>2, <1>6 DEF Entries
  <2>3. ASSUME NEW x \in Objects, x # o PROVE Placed(mapblock', database', sao', fate'[x], x)
    <3>1. Alike(mapblock, database, sao, mapblock', database', sao', x)
      BY <1>1, <1>3, <2>1, <2>2, <2>3 DEF Alike
    <3>2. QED
      BY <1>6, <3>1, AlikePlaced DEF PlacedInv
  <2>4. ASSUME fate[o] \in Tracked PROVE Placed(mapblock', database', sao', fate[o], o)
    <3>1. /\ fate[o] = "living" /\ Lies(mapblock, database, b)[o] = 1
          /\ \A c \in ObjectBlocks : c # b => Lies(mapblock, database, c)[o] = 0
          /\ \A c \in ObjectBlocks, j \in ObjectIds : mapblock[c].active[j] # o
          /\ \A j \in ObjectIds : ~(sao[j].who = o /\ ~sao[j].deactivation)
      BY <1>2, <1>4, <2>4, LiesAlone
    <3>2. DiskIsTrue(mapblock, database, o)
      BY <2>4, PlacedIs
    <3>3. ASSUME NEW c \in ObjectBlocks
          PROVE  /\ Lies(mapblock', database', c)[o] = 0
                 /\ \A j \in ObjectIds : mapblock'[c].active[j] = o <=> j = i /\ c = b
      BY <1>1, <1>3, <1>4, <2>2, <3>1
    <3>4. \A j \in SpotIds, c \in SpotBlocks :
            Spot(mapblock', database', sao', j, c, o) <=> j = i /\ c = NoBlock
      BY <1>1, <2>1, <3>1, <3>3 DEF Spot, SpotIds, SpotBlocks
    <3>5. OneSpot(mapblock', database', sao', o) /\ Somewhere(mapblock', database', sao', o)
      BY <1>1, <3>3, <3>4, SpotMoved DEF SpotIds, SpotBlocks
    <3>6. OneEntry(mapblock', o)
      BY <3>3 DEF OneEntry
    <3>7. Stories(mapblock', database', sao', fate[o], o)
      <4>1. \A j \in ObjectIds : sao[j].who = o => ~sao[j].removal
        BY <2>4, <3>1, PlacedIs
      <4>2. QED
        BY <2>1, <3>1, <3>5, <4>1 DEF Stories
    <3>8. DiskIsTrue(mapblock', database', o)
      <4>1. SUFFICES ASSUME NEW c \in ObjectBlocks, OnDisk(mapblock', c)
                     PROVE  database[c].objects[o] = Held(mapblock', database, c, o)
        BY <1>1 DEF DiskIsTrue
      <4>2. database[c].objects[o] = Held(mapblock, database, c, o)
        BY <1>3, <3>2, <4>1 DEF DiskIsTrue
      <4>3. HasEntry(mapblock', c, o) <=> c = b
        BY <3>3 DEF HasEntry
      <4>4. ~HasEntry(mapblock, c, o)
        BY <3>1 DEF HasEntry
      <4>5. QED
        BY <1>1, <3>1, <3>3, <4>2, <4>3, <4>4 DEF Held
    <3>9. QED
      BY <3>5, <3>6, <3>7, <3>8 DEF Placed
  <2>5. QED
    BY <1>6, <2>3, <2>4, OtherFate DEF PlacedInv
<1>7. QED
  BY <1>5, <1>6, ActivateIs

(* What is written of a block is what it holds.                            *)
LEMMA WrittenHolds ==
  ASSUME ObjectsInv, PlacedInv, NEW b \in ObjectBlocks, NEW o \in Objects, fate[o] \in Tracked,
         NEW d, d = IF mapblock[b].modified THEN Serialized(mapblock[b]) ELSE database[b]
  PROVE  d.objects[o] = Held(mapblock, database, b, o)
<1>1. /\ Memory(mapblock) /\ OneEntry(mapblock, o) /\ DiskIsTrue(mapblock, database, o)
      /\ mapblock[b] \in BlockType /\ (mapblock[b].modified => mapblock[b].inMemory)
  BY PlacedIs, UnloadedIs DEF ObjectsInv, Memory
<1>2. CASE mapblock[b].modified
  <2>1. Lies(mapblock, database, b) = mapblock[b].stored
    BY <1>1, <1>2 DEF Lies
  <2>2. CASE HasEntry(mapblock, b, o)
    <3>1. PICK i \in ObjectIds : mapblock[b].active[i] = o
      BY <2>2 DEF HasEntry
    <3>2. \A j \in ObjectIds : mapblock[b].active[j] = o => j = i
      BY <1>1, <3>1 DEF OneEntry
    <3>3. Serialized(mapblock[b]).objects[o] = mapblock[b].stored[o] + 1
      BY <1>1, <3>1, <3>2, SerializedIs
    <3>4. QED
      BY <1>2, <2>1, <2>2, <3>3 DEF Held
  <2>3. CASE ~HasEntry(mapblock, b, o)
    <3>1. Serialized(mapblock[b]).objects[o] = mapblock[b].stored[o]
      BY <1>1, <2>3, SerializedIs DEF HasEntry
    <3>2. mapblock[b].stored[o] \in Nat
      BY <1>1 DEF BlockType, Counts
    <3>3. QED
      BY <1>2, <2>1, <2>3, <3>1, <3>2 DEF Held
  <2>4. QED
    BY <2>2, <2>3
<1>3. CASE ~mapblock[b].modified
  BY <1>1, <1>3 DEF DiskIsTrue, OnDisk
<1>4. QED
  BY <1>2, <1>3

LEMMA HeldOfNone ==
  ASSUME NEW mb, NEW db, NEW b, NEW o, Lies(mb, db, b)[o] \in Nat,
         \A i \in ObjectIds : mb[b].active[i] # o
  PROVE  Held(mb, db, b, o) = Lies(mb, db, b)[o]
  BY DEF Held, HasEntry

LEMMA Save_Placed ==
  ASSUME ObjectsInv, PlacedInv, saveMap
  PROVE  PlacedInv'
<1>1. /\ UNCHANGED <<sao, fate>> /\ Memory(mapblock) /\ Disk(database)
      /\ database' = [b \in ObjectBlocks |->
                        IF mapblock[b].modified THEN Serialized(mapblock[b]) ELSE database[b]]
      /\ mapblock' = [b \in ObjectBlocks |-> [mapblock[b] EXCEPT !.modified = FALSE]]
  BY DEF saveMap, Untouched, ObjectsInv
<1>2. ASSUME NEW b \in ObjectBlocks
      PROVE  /\ mapblock'[b].active = mapblock[b].active
             /\ Lies(mapblock', database', b) = Lies(mapblock, database, b)
             /\ OnDisk(mapblock', b)
  <2>1. mapblock[b] \in BlockType /\ (mapblock[b].modified => mapblock[b].inMemory)
    BY <1>1, UnloadedIs DEF Memory
  <2>2. mapblock'[b] = [mapblock[b] EXCEPT !.modified = FALSE]
    BY <1>1
  <2>3. /\ mapblock'[b].active = mapblock[b].active /\ mapblock'[b].stored = mapblock[b].stored
        /\ mapblock'[b].inMemory = mapblock[b].inMemory /\ ~mapblock'[b].modified
    BY <2>1, <2>2 DEF BlockType
  <2>4. QED
    BY <1>1, <2>1, <2>3 DEF Lies, OnDisk
<1>3. ASSUME NEW o \in Objects, fate[o] \in Tracked
      PROVE  Alike(mapblock, database, sao, mapblock', database', sao', o)
  <2>1. ASSUME NEW b \in ObjectBlocks
        PROVE  database'[b].objects[o] = Held(mapblock', database', b, o)
    <3>1. database'[b].objects[o] = Held(mapblock, database, b, o)
      BY <1>1, <1>3, WrittenHolds
    <3>2. QED
      BY <1>2, <3>1 DEF Held, HasEntry
  <2>2. QED
    BY <1>1, <1>2, <2>1 DEF Alike
<1>4. QED
  BY <1>1, <1>3, AlikePlaced, OtherFate DEF PlacedInv

LEMMA Unload_Placed ==
  ASSUME ObjectsInv, ObjectsInv', PlacedInv, NEW b \in ObjectBlocks, timerUnload(b)
  PROVE  PlacedInv'
<1> DEFINE d == IF mapblock[b].modified THEN Serialized(mapblock[b]) ELSE database[b]
<1>1. /\ sao' = sao /\ Memory(mapblock) /\ Disk(database) /\ mapblock[b].inMemory
      /\ mapblock' = [mapblock EXCEPT ![b] = Unloaded] /\ Entered(mapblock, sao)
      /\ database' = [database EXCEPT ![b] = d] /\ Disk(database') /\ Memory(mapblock')
      /\ NoBlock \notin ObjectBlocks /\ NoObject \notin Objects /\ NoId \notin ObjectIds
  BY ActiveObjectsAssumption DEF timerUnload, Untouched, ObjectsInv
<1>2. fate' = [o \in Objects |->
                 IF \E i \in Instances : mapblock[b].active[i] = o /\ ~sao[i].deactivation
                 THEN "doubled" ELSE fate[o]]
  BY DEF timerUnload
<1>3. \A c \in ObjectBlocks : c # b => mapblock'[c] = mapblock[c] /\ database'[c] = database[c]
  BY <1>1 DEF Memory, Disk
<1>4. /\ mapblock'[b] = Unloaded /\ database'[b] = d
      /\ \A o : Lies(mapblock', database', b)[o] = d.objects[o]
      /\ \A i \in ObjectIds : mapblock'[b].active[i] = NoObject
  BY <1>1, UnloadedIs DEF Memory, Disk, Lies
<1> HIDE DEF d
<1>5. ASSUME NEW o \in Objects, fate'[o] \in Tracked
      PROVE  Placed(mapblock', database', sao', fate'[o], o)
  <2>1. /\ fate'[o] = fate[o]
        /\ \A i \in ObjectIds : mapblock[b].active[i] = o => sao[i].deactivation
    <3>1. fate'[o] = fate[o]
          /\ ~(\E i \in Instances : mapblock[b].active[i] = o /\ ~sao[i].deactivation)
      BY <1>2, <1>5 DEF Tracked
    <3>2. \A i \in ObjectIds : mapblock[b].active[i] = o => i \in Instances
      BY <1>1 DEF Entered, Instances
    <3>3. QED
      BY <3>1, <3>2
  <2>2. /\ d.objects[o] = Held(mapblock, database, b, o) /\ OneEntry(mapblock, o)
        /\ DiskIsTrue(mapblock, database, o) /\ Lies(mapblock, database, b)[o] \in 0 .. 1
    BY <1>5, <2>1, WrittenHolds, PlacedIs DEF d
  <2>3. DiskIsTrue(mapblock', database', o)
    <3>1. SUFFICES ASSUME NEW c \in ObjectBlocks, OnDisk(mapblock', c)
                   PROVE  database'[c].objects[o] = Held(mapblock', database', c, o)
      BY DEF DiskIsTrue
    <3>2. CASE c = b
      <4>1. d.objects[o] = Lies(mapblock', database', b)[o] /\ Lies(mapblock', database', b)[o] \in Nat
        BY <1>1, <1>4, LiesIs
      <4>2. \A j \in ObjectIds : mapblock'[b].active[j] # o
        BY <1>1, <1>4
      <4>3. Held(mapblock', database', b, o) = Lies(mapblock', database', b)[o]
        BY <4>1, <4>2, HeldOfNone
      <4>4. QED
        BY <1>4, <3>2, <4>1, <4>3
    <3>3. CASE c # b
      BY <1>3, <2>2, <3>1, <3>3 DEF DiskIsTrue, OnDisk, Held, HasEntry, Lies
    <3>4. QED
      BY <3>2, <3>3
  <2>4. CASE ~HasEntry(mapblock, b, o)
    <3>1. d.objects[o] = Lies(mapblock, database, b)[o]
      BY <2>2, <2>4 DEF Held
    <3>2. \A c \in ObjectBlocks : Lies(mapblock', database', c)[o] = Lies(mapblock, database, c)[o]
      BY <1>3, <1>4, <3>1 DEF Lies
    <3>3. \A c \in ObjectBlocks, i \in ObjectIds :
            mapblock'[c].active[i] = o <=> mapblock[c].active[i] = o
      BY <1>1, <1>3, <1>4, <2>4 DEF HasEntry
    <3>4. Alike(mapblock, database, sao, mapblock', database', sao', o)
      BY <1>1, <2>3, <3>2, <3>3 DEF Alike, DiskIsTrue
    <3>5. QED
      BY <2>1, <3>4, AlikePlaced DEF PlacedInv
  <2>5. ASSUME NEW i \in ObjectIds, mapblock[b].active[i] = o
        PROVE  Placed(mapblock', database', sao', fate'[o], o)
    <3>1. /\ fate[o] = "living"
          /\ \A c \in ObjectBlocks : Lies(mapblock, database, c)[o] = 0
          /\ \A c \in ObjectBlocks, j \in ObjectIds : mapblock[c].active[j] = o => j = i /\ c = b
          /\ \A j \in ObjectIds : ~(sao[j].who = o /\ ~sao[j].deactivation)
      BY <1>5, <2>1, <2>5, WaitsAlone
    <3>2. d.objects[o] = 1
      BY <2>2, <2>5, <3>1 DEF Held, HasEntry
    <3>3. ASSUME NEW c \in ObjectBlocks
          PROVE  /\ Lies(mapblock', database', c)[o] = IF c = b THEN 1 ELSE 0
                 /\ \A j \in ObjectIds : mapblock'[c].active[j] # o
      BY <1>1, <1>3, <1>4, <3>1, <3>2 DEF Lies
    <3>4. /\ NoId \in SpotIds /\ b \in SpotBlocks
          /\ \A c \in ObjectBlocks : Lies(mapblock', database', c)[o] <= 1
      BY <3>3 DEF SpotIds, SpotBlocks
    <3>41. \A j \in ObjectIds : ~(sao'[j].who = o /\ ~sao'[j].deactivation)
      BY <1>1, <3>1
    <3>42. \A j \in SpotIds, c \in SpotBlocks :
             Spot(mapblock', database', sao', j, c, o) <=> j = NoId /\ c = b
      <4>1. \A c \in ObjectBlocks : /\ Lies(mapblock', database', c)[o] > 0 <=> c = b
                                    /\ \A j \in ObjectIds : mapblock'[c].active[j] # o
        BY <3>3
      <4>2. NoBlock \notin ObjectBlocks /\ NoId \notin ObjectIds
        BY <1>1
      <4>3. QED
        BY <3>41, <4>1, <4>2 DEF Spot, SpotIds, SpotBlocks
    <3>5. OneSpot(mapblock', database', sao', o) /\ Somewhere(mapblock', database', sao', o)
      BY <3>4, <3>42, SpotMoved
    <3>6. OneEntry(mapblock', o)
      BY <3>3 DEF OneEntry
    <3>7. Stories(mapblock', database', sao', fate'[o], o)
      <4>1. \A j \in ObjectIds : sao[j].who = o => ~sao[j].removal
        BY <1>5, <2>1, <3>1, PlacedIs
      <4>2. QED
        BY <1>1, <2>1, <3>1, <3>5, <4>1 DEF Stories
    <3>8. QED
      BY <2>3, <3>5, <3>6, <3>7 DEF Placed
  <2>6. QED
    BY <2>4, <2>5 DEF HasEntry
<1>6. QED
  BY <1>5, OtherFate DEF PlacedInv

LEMMA Delete_Placed ==
  ASSUME ObjectsInv, PlacedInv, NEW b \in ObjectBlocks, deleteBlock(b)
  PROVE  PlacedInv'
<1>1. /\ sao' = sao /\ Memory(mapblock) /\ Disk(database) /\ Entered(mapblock, sao)
      /\ mapblock' = [mapblock EXCEPT ![b] = Unloaded]
      /\ database' = [database EXCEPT ![b] = Missing]
      /\ NoObject \notin Objects
  BY ActiveObjectsAssumption DEF deleteBlock, Untouched, ObjectsInv
<1>2. fate' = [o \in Objects |->
                IF \/ Emerged(mapblock, b)[b].stored[o] > 0
                   \/ \E i \in Instances : mapblock[b].active[i] = o /\ sao[i].deactivation
                THEN "deleted" ELSE fate[o]]
  BY DEF deleteBlock
<1>3. \A c \in ObjectBlocks : c # b => mapblock'[c] = mapblock[c] /\ database'[c] = database[c]
  BY <1>1 DEF Memory, Disk
<1>4. /\ mapblock'[b] = Unloaded /\ database'[b] = Missing
      /\ \A o \in Objects : /\ Lies(mapblock', database', b)[o] = 0
                            /\ database'[b].objects[o] = 0
      /\ \A i \in ObjectIds : mapblock'[b].active[i] = NoObject
  BY <1>1, UnloadedIs DEF Memory, Disk, Lies
<1>5. Emerged(mapblock, b)[b].stored = Lies(mapblock, database, b)
  <2>1. Emerged(mapblock, b)[b].inMemory /\ Same(mapblock, database, Emerged(mapblock, b))
    BY <1>1, EmergedIs
  <2>2. QED
    BY <2>1 DEF Same, Lies
<1>6. ASSUME NEW o \in Objects, fate'[o] \in Tracked
      PROVE  Placed(mapblock', database', sao', fate'[o], o)
  <2>1. /\ fate'[o] = fate[o] /\ ~(Lies(mapblock, database, b)[o] > 0)
        /\ ~(\E i \in Instances : mapblock[b].active[i] = o /\ sao[i].deactivation)
    BY <1>2, <1>5, <1>6 DEF Tracked
  <2>2. \A i \in ObjectIds : mapblock[b].active[i] = o => ~sao[i].deactivation
    <3>1. \A i \in ObjectIds : mapblock[b].active[i] = o => i \in Instances
      BY <1>1 DEF Entered, Instances
    <3>2. QED
      BY <2>1, <3>1
  <2>3. Lies(mapblock, database, b)[o] = 0
    <3>1. Lies(mapblock, database, b)[o] \in Nat
      BY <1>1, LiesIs
    <3>2. QED
      BY <2>1, <3>1
  <2>4. \A c \in ObjectBlocks : Lies(mapblock', database', c)[o] = Lies(mapblock, database, c)[o]
    BY <1>3, <1>4, <2>3 DEF Lies
  <2>5. \A i \in SpotIds, c \in SpotBlocks :
          Spot(mapblock', database', sao', i, c, o) <=> Spot(mapblock, database, sao, i, c, o)
    <3>1. \A i \in ObjectIds, c \in ObjectBlocks :
            mapblock'[c].active[i] = o /\ sao[i].deactivation
              <=> mapblock[c].active[i] = o /\ sao[i].deactivation
      BY <1>1, <1>3, <1>4, <2>2
    <3>2. QED
      BY <1>1, <2>4, <3>1 DEF Spot
  <2>6. /\ OneSpot(mapblock, database, sao, o) /\ OneEntry(mapblock, o)
        /\ Stories(mapblock, database, sao, fate[o], o) /\ DiskIsTrue(mapblock, database, o)
    BY <1>6, <2>1 DEF PlacedInv, Placed
  <2>7. OneSpot(mapblock', database', sao', o) /\ Stories(mapblock', database', sao', fate'[o], o)
    BY <1>1, <2>1, <2>4, <2>5, <2>6 DEF OneSpot, Stories, Somewhere
  <2>8. OneEntry(mapblock', o)
    BY <1>1, <1>3, <1>4, <2>6 DEF OneEntry
  <2>9. DiskIsTrue(mapblock', database', o)
    <3>1. SUFFICES ASSUME NEW c \in ObjectBlocks, OnDisk(mapblock', c)
                   PROVE  database'[c].objects[o] = Held(mapblock', database', c, o)
      BY DEF DiskIsTrue
    <3>2. CASE c = b
      <4>1. \A j \in ObjectIds : mapblock'[b].active[j] # o
        BY <1>1, <1>4
      <4>2. Held(mapblock', database', b, o) = Lies(mapblock', database', b)[o]
        BY <1>4, <4>1, HeldOfNone
      <4>3. QED
        BY <1>4, <3>2, <4>2
    <3>3. CASE c # b
      BY <1>3, <2>6, <3>1, <3>3 DEF DiskIsTrue, OnDisk, Held, HasEntry, Lies
    <3>4. QED
      BY <3>2, <3>3
  <2>10. QED
    BY <2>7, <2>8, <2>9 DEF Placed
<1>7. QED
  BY <1>6, OtherFate DEF PlacedInv

LEMMA Restart_Placed ==
  ASSUME ObjectsInv, PlacedInv, restart
  PROVE  PlacedInv'
<1>1. /\ UNCHANGED <<sao, fate>> /\ Memory(mapblock) /\ Disk(database) /\ Entered(mapblock, sao)
      /\ mapblock' = [b \in ObjectBlocks |-> Unloaded]
      /\ database' = [b \in ObjectBlocks |->
                        IF mapblock[b].modified THEN Serialized(mapblock[b]) ELSE database[b]]
      /\ Instances = {} /\ NoObject \notin Objects
  BY ActiveObjectsAssumption DEF restart, ObjectsInv, LoopInv
<1>2. ASSUME NEW o \in Objects, fate[o] \in Tracked
      PROVE  Alike(mapblock, database, sao, mapblock', database', sao', o)
  <2>1. ASSUME NEW b \in ObjectBlocks
        PROVE  /\ \A i \in ObjectIds : mapblock[b].active[i] # o /\ mapblock'[b].active[i] # o
               /\ Lies(mapblock', database', b)[o] = Lies(mapblock, database, b)[o]
               /\ database'[b].objects[o] = Held(mapblock', database', b, o)
    <3>1. \A i \in ObjectIds : mapblock[b].active[i] # o /\ mapblock'[b].active[i] # o
      BY <1>1, UnloadedIs DEF Entered, Instances
    <3>2. Lies(mapblock, database, b)[o] \in Nat
      BY <1>1, LiesIs
    <3>3. database'[b].objects[o] = Held(mapblock, database, b, o)
      BY <1>1, <1>2, WrittenHolds
    <3>4. Held(mapblock, database, b, o) = Lies(mapblock, database, b)[o]
      BY <3>1, <3>2, HeldOfNone
    <3>5. Lies(mapblock', database', b)[o] = database'[b].objects[o]
      BY <1>1, UnloadedIs DEF Lies
    <3>6. Held(mapblock', database', b, o) = Lies(mapblock', database', b)[o]
      BY <3>1, <3>2, <3>3, <3>4, <3>5, HeldOfNone
    <3>7. QED
      BY <3>1, <3>3, <3>4, <3>5, <3>6
  <2>2. QED
    BY <1>1, <2>1 DEF Alike
<1>3. QED
  BY <1>1, <1>2, AlikePlaced, OtherFate DEF PlacedInv

LEMMA Clear_Placed ==
  ASSUME ObjectsInv, ObjectsInv', PlacedInv, NEW full \in BOOLEAN, clearObjects(full)
  PROVE  PlacedInv'
<1>1. /\ mapblock' = [b \in ObjectBlocks |->
                        LET m == mapblock[b]
                        IN  IF m.stored = Nothing /\ m.active = NoneIn THEN m
                            ELSE [m EXCEPT !.stored = Nothing, !.active = NoneIn, !.modified = TRUE]]
      /\ database' = [b \in ObjectBlocks |->
                        IF full /\ ~mapblock[b].inMemory
                        THEN [database[b] EXCEPT !.objects = Nothing] ELSE database[b]]
      /\ sao' = [i \in ObjectIds |->
                   IF sao[i].known
                   THEN [sao[i] EXCEPT !.removal = TRUE,
                           !.static = IF @ # NoBlock /\ mapblock[@].inMemory THEN NoBlock ELSE @]
                   ELSE NoSao]
      /\ fate' = [o \in Objects |-> IF fate[o] # "unborn" THEN "cleared" ELSE "unborn"]
  BY DEF clearObjects
<1>2. /\ Memory(mapblock) /\ Disk(database) /\ Memory(mapblock') /\ Disk(database')
      /\ sao \in [ObjectIds -> SaoType] /\ NoSao.who = NoObject /\ NoObject \notin Objects
      /\ Entered(mapblock', sao')
  BY ActiveObjectsAssumption DEF ObjectsInv, Instanced, NoSao
<1>3. ASSUME NEW b \in ObjectBlocks
      PROVE  /\ mapblock[b].inMemory => mapblock'[b].stored = Nothing /\ mapblock'[b].inMemory
             /\ ~mapblock[b].inMemory => /\ mapblock'[b] = mapblock[b]
                                         /\ \/ database'[b].objects = Nothing
                                            \/ database'[b].objects = database[b].objects
             /\ OnDisk(mapblock', b) /\ mapblock[b].inMemory => /\ OnDisk(mapblock, b)
                                                               /\ database'[b] = database[b]
  <2>1. mapblock[b] \in BlockType /\ database[b] \in DiskType
        /\ (~mapblock[b].inMemory => mapblock[b] = Unloaded)
    BY <1>2 DEF Memory, Disk
  <2>2. CASE mapblock[b].inMemory /\ mapblock[b].stored = Nothing /\ mapblock[b].active = NoneIn
    BY <1>1, <2>1, <2>2 DEF OnDisk
  <2>3. CASE mapblock[b].inMemory /\ ~(mapblock[b].stored = Nothing /\ mapblock[b].active = NoneIn)
    <3>1. mapblock'[b] = [mapblock[b] EXCEPT !.stored = Nothing, !.active = NoneIn, !.modified = TRUE]
      BY <1>1, <2>3
    <3>2. mapblock'[b].inMemory /\ mapblock'[b].modified /\ mapblock'[b].stored = Nothing
      BY <2>1, <2>3, <3>1 DEF BlockType
    <3>3. QED
      BY <2>3, <3>2 DEF OnDisk
  <2>4. CASE ~mapblock[b].inMemory
    <3>0. Unloaded.stored = Nothing /\ Unloaded.active = NoneIn
      BY DEF Unloaded
    <3>1. mapblock'[b] = mapblock[b]
      BY <1>1, <2>1, <2>4, <3>0
    <3>2. database'[b].objects = Nothing \/ database'[b].objects = database[b].objects
      BY <1>1, <2>1 DEF DiskType
    <3>3. QED
      BY <2>4, <3>1, <3>2
  <2>5. QED
    BY <2>2, <2>3, <2>4
<1>4. ASSUME NEW o \in Objects, fate'[o] \in Tracked
      PROVE  Placed(mapblock', database', sao', fate'[o], o)
  <2>1. fate[o] = "unborn" /\ fate'[o] = "unborn"
    BY <1>1, <1>4 DEF Tracked
  <2>2. /\ \A i \in ObjectIds : sao[i].who # o
        /\ \A b \in ObjectBlocks : /\ Lies(mapblock, database, b)[o] = 0
                                   /\ \A i \in ObjectIds : mapblock[b].active[i] # o
        /\ DiskIsTrue(mapblock, database, o)
    BY <2>1, PlacedIs DEF Tracked
  <2>3. \A i \in ObjectIds : sao'[i].who # o
    <3>1. SUFFICES ASSUME NEW i \in ObjectIds PROVE sao'[i].who # o
      OBVIOUS
    <3>2. sao[i] \in SaoType
      BY <1>2
    <3>3. sao'[i].who = sao[i].who \/ sao'[i] = NoSao
      BY <1>1, <3>2 DEF SaoType
    <3>4. QED
      BY <1>2, <2>2, <3>3
  <2>4. \A b \in ObjectBlocks, i \in ObjectIds : mapblock'[b].active[i] # o
    BY <1>2, <2>3 DEF Entered
  <2>5. ASSUME NEW b \in ObjectBlocks
        PROVE  /\ Lies(mapblock', database', b)[o] = 0
               /\ OnDisk(mapblock', b) => database'[b].objects[o] = 0
    <3>1. CASE mapblock[b].inMemory
      <4>1. Lies(mapblock', database', b)[o] = 0
        BY <1>3, <3>1 DEF Lies, Nothing
      <4>2. ASSUME OnDisk(mapblock', b) PROVE database'[b].objects[o] = 0
        <5>1. OnDisk(mapblock, b) /\ database'[b] = database[b]
          BY <1>3, <3>1, <4>2
        <5>2. database[b].objects[o] = Held(mapblock, database, b, o)
          BY <2>2, <5>1 DEF DiskIsTrue
        <5>3. Held(mapblock, database, b, o) = 0
          BY <2>2, HeldOfNone
        <5>4. QED
          BY <5>1, <5>2, <5>3
      <4>3. QED
        BY <4>1, <4>2
    <3>2. CASE ~mapblock[b].inMemory
      <4>1. database[b].objects[o] = 0 /\ ~mapblock'[b].inMemory
        BY <1>3, <2>2, <3>2 DEF Lies
      <4>2. database'[b].objects[o] = 0
        BY <1>3, <3>2, <4>1 DEF Nothing
      <4>3. QED
        BY <4>1, <4>2 DEF Lies
    <3>3. QED
      BY <3>1, <3>2
  <2>6. \A i \in SpotIds, b \in SpotBlocks : ~Spot(mapblock', database', sao', i, b, o)
    BY <2>3, <2>4, <2>5 DEF Spot
  <2>7. OneSpot(mapblock', database', sao', o) /\ ~Somewhere(mapblock', database', sao', o)
    BY <1>2, <2>6, NoSpotLeft
  <2>8. OneEntry(mapblock', o)
    BY <2>4 DEF OneEntry
  <2>9. DiskIsTrue(mapblock', database', o)
    BY <2>4, <2>5, HeldOfNone DEF DiskIsTrue
  <2>10. QED
    BY <2>1, <2>3, <2>7, <2>8, <2>9 DEF Placed, Stories
<1>5. QED
  BY <1>4, OtherFate DEF PlacedInv

LEMMA Init_Placed ==
  ASSUME ActiveObjectsInit
  PROVE  PlacedInv
<1>1. ObjectsInv
  BY Init_Inv
<1>2. /\ Memory(mapblock) /\ Disk(database) /\ sao = [i \in ObjectIds |-> NoSao]
      /\ mapblock = [b \in ObjectBlocks |-> Unloaded] /\ fate = [o \in Objects |-> "unborn"]
      /\ NoSao.who = NoObject /\ NoObject \notin Objects
  BY <1>1, ActiveObjectsAssumption DEF ActiveObjectsInit, ObjectsInv, NoSao
<1>3. \A b \in ObjectBlocks : database[b].objects = Nothing
  BY DEF ActiveObjectsInit, Missing
<1>4. ASSUME NEW o \in Objects PROVE Placed(mapblock, database, sao, fate[o], o)
  <2>1. ASSUME NEW b \in ObjectBlocks
        PROVE  /\ Lies(mapblock, database, b)[o] = 0 /\ database[b].objects[o] = 0
               /\ \A i \in ObjectIds : mapblock[b].active[i] # o
    BY <1>2, <1>3, UnloadedIs DEF Lies, Nothing
  <2>2. \A i \in ObjectIds : sao[i].who # o
    BY <1>2
  <2>3. \A i \in SpotIds, b \in SpotBlocks : ~Spot(mapblock, database, sao, i, b, o)
    BY <2>1, <2>2 DEF Spot
  <2>4. OneSpot(mapblock, database, sao, o) /\ ~Somewhere(mapblock, database, sao, o)
    BY <1>2, <2>3, NoSpotLeft
  <2>5. OneEntry(mapblock, o)
    BY <2>1 DEF OneEntry
  <2>6. DiskIsTrue(mapblock, database, o)
    BY <2>1, HeldOfNone DEF DiskIsTrue
  <2>7. QED
    BY <1>2, <2>2, <2>4, <2>5, <2>6 DEF Placed, Stories
<1>5. QED
  BY <1>4 DEF PlacedInv

LEMMA Next_Placed ==
  ASSUME ObjectsInv, ObjectsInv', PlacedInv, [ActiveObjectsNext]_aoVars
  PROVE  PlacedInv'
<1>1. CASE UNCHANGED aoVars
  BY <1>1 DEF aoVars, PlacedInv
<1>2. ASSUME NEW o \in Objects, NEW b \in ObjectBlocks, addActiveObject(o, b) \/ activateObject(b, o)
      PROVE  PlacedInv'
  BY <1>2, Add_Placed, ActivateObject_Placed
<1>3. ASSUME NEW i \in ObjectIds,
             \/ \E b \in ObjectBlocks : MoveObject(i, b)
             \/ KnownByClients(i) \/ markForRemoval(i)
      PROVE  PlacedInv'
  BY <1>3, Outside_Placed
<1>4. ASSUME NEW i \in ObjectIds,
             \/ StaysActive(i) \/ ResaveStatic(i) \/ Deactivate(i)
             \/ removeRemovedObject(i)
      PROVE  PlacedInv'
  BY <1>4, Others_Placed, Resave_Placed, Deactivate_Placed, Remove_Placed
<1>5. ASSUME NEW newlist \in SUBSET ObjectBlocks, ManageActiveBlocks(newlist)
      PROVE  PlacedInv'
  BY <1>5, Others_Placed
<1>6. ASSUME NEW b \in ObjectBlocks,
             \/ activateBlock(b) \/ BlockActivated(b)
             \/ loadFromDisk(b) \/ finishGenOf(b) \/ timerUnload(b) \/ deleteBlock(b)
      PROVE  PlacedInv'
  BY <1>6, ActivateBlock_Placed, Others_Placed, Unload_Placed, Delete_Placed
<1>7. ASSUME NEW full \in BOOLEAN, clearObjects(full)
      PROVE  PlacedInv'
  BY <1>7, Clear_Placed
<1>8. ASSUME \/ EndDeactivation \/ EndActivation \/ BeginRemoval \/ EndRemoval
             \/ saveMap \/ shutdown \/ restart
      PROVE  PlacedInv'
  BY <1>8, Others_Placed, Save_Placed, Restart_Placed
<1>9. QED
  BY <1>1, <1>2, <1>3, <1>4, <1>5, <1>6, <1>7, <1>8 DEF ActiveObjectsNext

LEMMA PlacedAlways == ActiveObjectsSpec => [](ObjectsInv /\ PlacedInv)
<1>1. ActiveObjectsInit => PlacedInv
  BY Init_Placed
<1>2. ObjectsInv /\ ObjectsInv' /\ PlacedInv /\ [ActiveObjectsNext]_aoVars => PlacedInv'
  BY Next_Placed
<1>3. QED
  BY <1>1, <1>2, ObjectsInvAlways, PTL DEF ActiveObjectsSpec

(* The copies that Copies counts.                                          *)
LEMMA CopiesAre ==
  ASSUME ObjectsInv, NEW o \in Objects
  PROVE  /\ \A i : i \in Staying(o) <=> /\ i \in ObjectIds /\ sao[i].who = o
                                        /\ ~sao[i].removal /\ ~sao[i].deactivation
         /\ \A e : e \in Waiting(o) =>
                     \E b \in ObjectBlocks, i \in ObjectIds :
                        e = <<b, i>> /\ mapblock[b].active[i] = o /\ sao[i].deactivation
         /\ \A b \in ObjectBlocks, i \in ObjectIds :
              mapblock[b].active[i] = o /\ sao[i].deactivation => <<b, i>> \in Waiting(o)
         /\ \A e : e \in StoredIn(o) =>
                     \E b \in ObjectBlocks : \E n \in 1 .. Lies(mapblock, database, b)[o] :
                        e = <<b, n>>
         /\ \A b \in ObjectBlocks : Lies(mapblock, database, b)[o] = 1 => <<b, 1>> \in StoredIn(o)
<1>1. \A i : i \in Staying(o) <=> /\ i \in ObjectIds /\ sao[i].who = o
                                  /\ ~sao[i].removal /\ ~sao[i].deactivation
  BY DEF Staying, Gone
<1>2. /\ \A e : e \in Waiting(o) =>
                  \E b \in ObjectBlocks, i \in ObjectIds :
                     e = <<b, i>> /\ mapblock[b].active[i] = o /\ sao[i].deactivation
      /\ \A b \in ObjectBlocks, i \in ObjectIds :
           mapblock[b].active[i] = o /\ sao[i].deactivation => <<b, i>> \in Waiting(o)
  BY DEF Waiting
<1>3. \A b \in ObjectBlocks : Lying(b) = Lies(mapblock, database, b)
  BY DEF Lying, Lies
<1>4. \A e : e \in StoredIn(o) => \E b \in ObjectBlocks :
                                    \E n \in 1 .. Lies(mapblock, database, b)[o] : e = <<b, n>>
  BY <1>3 DEF StoredIn
<1>5. ASSUME NEW b \in ObjectBlocks, Lies(mapblock, database, b)[o] = 1
      PROVE  <<b, 1>> \in StoredIn(o)
  <2>1. 1 \in 1 .. Lying(b)[o]
    BY <1>3, <1>5
  <2>2. QED
    BY <2>1 DEF StoredIn
<1>6. QED
  BY <1>1, <1>2, <1>4, <1>5

(* None of them but of an object that lives.                               *)
LEMMA NoCopy ==
  ASSUME ObjectsInv, PlacedInv, NEW o \in Objects, fate[o] \in {"unborn", "removed"}
  PROVE  Copies(o) = 0
<1>1. fate[o] \in Tracked /\ fate[o] # "living"
  BY DEF Tracked
<1>2. Staying(o) = {}
  BY <1>1, CopiesAre, PlacedIs
<1>3. Waiting(o) = {}
  BY <1>1, CopiesAre, PlacedIs
<1>4. StoredIn(o) = {}
  <2>1. \A b \in ObjectBlocks : Lies(mapblock, database, b)[o] = 0
    <3>1. SUFFICES ASSUME NEW b \in ObjectBlocks PROVE Lies(mapblock, database, b)[o] = 0
      OBVIOUS
    <3>2. Lies(mapblock, database, b)[o] \in 0 .. 1 /\ ~(Lies(mapblock, database, b)[o] > 0)
      BY <1>1, PlacedIs
    <3>3. QED
      BY <3>2
  <2>2. QED
    BY <2>1, CopiesAre
<1>5. QED
  BY <1>2, <1>3, <1>4, FS_EmptySet DEF Copies

(* One of an object that lives.                                            *)
LEMMA OnlyCopy ==
  ASSUME ObjectsInv, PlacedInv, NEW o \in Objects, fate[o] = "living"
  PROVE  Copies(o) = 1
<1>1. fate[o] \in Tracked /\ Somewhere(mapblock, database, sao, o)
  BY PlacedIs DEF Tracked
<1>2. PICK i \in SpotIds : \E b \in SpotBlocks : Spot(mapblock, database, sao, i, b, o)
  BY <1>1 DEF Somewhere
<1>3. PICK b \in SpotBlocks : Spot(mapblock, database, sao, i, b, o)
  BY <1>2
<1>4. ASSUME NEW x PROVE Cardinality({x}) = 1
  BY FS_Singleton
<1>5. Cardinality({}) = 0
  BY FS_EmptySet
<1>6. CASE i \in ObjectIds /\ sao[i].who = o /\ ~sao[i].removal /\ ~sao[i].deactivation
  <2>1. /\ \A c \in ObjectBlocks : Lies(mapblock, database, c)[o] = 0
        /\ \A c \in ObjectBlocks, j \in ObjectIds : mapblock[c].active[j] = o => j = i
        /\ \A j \in ObjectIds : j # i => ~(sao[j].who = o /\ ~sao[j].deactivation)
    BY <1>1, <1>6, StaysAlone
  <2>2. Staying(o) = {i} /\ Waiting(o) = {}
    BY <1>6, <2>1, CopiesAre
  <2>3. StoredIn(o) = {}
    BY <2>1, CopiesAre
  <2>4. QED
    BY <1>4, <1>5, <2>2, <2>3 DEF Copies
<1>7. CASE i \in ObjectIds /\ b \in ObjectBlocks /\ mapblock[b].active[i] = o /\ sao[i].deactivation
  <2>1. /\ \A c \in ObjectBlocks : Lies(mapblock, database, c)[o] = 0
        /\ \A c \in ObjectBlocks, j \in ObjectIds : mapblock[c].active[j] = o => j = i /\ c = b
        /\ \A j \in ObjectIds : ~(sao[j].who = o /\ ~sao[j].deactivation)
    BY <1>1, <1>7, WaitsAlone
  <2>2. Staying(o) = {}
    BY <2>1, CopiesAre
  <2>3. Waiting(o) = {<<b, i>>}
    BY <1>7, <2>1, CopiesAre
  <2>4. StoredIn(o) = {}
    BY <2>1, CopiesAre
  <2>5. Cardinality(Waiting(o)) = 1
    BY <1>4, <2>3
  <2>6. QED
    BY <1>5, <2>2, <2>4, <2>5 DEF Copies
<1>8. CASE i = NoId /\ b \in ObjectBlocks /\ Lies(mapblock, database, b)[o] > 0
  <2>1. /\ Lies(mapblock, database, b)[o] = 1
        /\ \A c \in ObjectBlocks : c # b => Lies(mapblock, database, c)[o] = 0
        /\ \A c \in ObjectBlocks, j \in ObjectIds : mapblock[c].active[j] # o
        /\ \A j \in ObjectIds : ~(sao[j].who = o /\ ~sao[j].deactivation)
    BY <1>1, <1>8, LiesAlone
  <2>2. Staying(o) = {} /\ Waiting(o) = {}
    BY <2>1, CopiesAre
  <2>3. StoredIn(o) = {<<b, 1>>}
    <3>1. <<b, 1>> \in StoredIn(o)
      BY <1>8, <2>1, CopiesAre
    <3>2. ASSUME NEW e \in StoredIn(o) PROVE e = <<b, 1>>
      <4>1. PICK c \in ObjectBlocks : \E n \in 1 .. Lies(mapblock, database, c)[o] : e = <<c, n>>
        BY CopiesAre
      <4>2. PICK n \in 1 .. Lies(mapblock, database, c)[o] : e = <<c, n>>
        BY <4>1
      <4>3. c = b
        BY <2>1, <4>2
      <4>4. n = 1
        BY <2>1, <4>2, <4>3
      <4>5. QED
        BY <4>2, <4>3, <4>4
    <3>3. QED
      BY <3>1, <3>2
  <2>4. Cardinality(StoredIn(o)) = 1
    BY <1>4, <2>3
  <2>5. QED
    BY <1>5, <2>2, <2>4 DEF Copies
<1>9. QED
  BY <1>3, <1>6, <1>7, <1>8 DEF Spot

(* Between two loops an object that lives is in one place, and one that    *)
(* was removed is nowhere; and no entry of m_active is of an instance that *)
(* does not know the block, at any time.                                   *)
THEOREM EachObjectOnceAlways == ActiveObjectsSpec => []EachObjectOnce
<1>1. ObjectsInv /\ PlacedInv => EachObjectOnce
  BY NoCopy, OnlyCopy, InvGivesTypes DEF EachObjectOnce, OneCopy
<1>2. QED
  BY <1>1, PlacedAlways, PTL

-----------------------------------------------------------------------------
(* What is left of an object after clearObjects, in a run in which the     *)
(* server is not stopped: instances that are to be removed, and stored     *)
(* copies in blocks whose timestamp is older, which the next activation    *)
(* clears.  Until then no block gets a new timestamp: those that are       *)
(* active, or leave the list of the active blocks, hold no copy.           *)
Old(stamp, t) == stamp = BLOCK_TIMESTAMP_UNDEFINED \/ stamp < t
Watched       == ActiveBlocks \union loop.removed
Emptied(o) ==
  /\ \A i \in ObjectIds : sao[i].who = o => sao[i].removal
  /\ \A b \in ObjectBlocks, i \in ObjectIds : mapblock[b].active[i] # o
  /\ \A b \in ObjectBlocks : Lies(mapblock, database, b)[o] > 0 =>
       /\ Old(Stamp(mapblock, database, b), m_last_clear_objects_time)
       /\ b \in Watched => b \in loop.blocks
  /\ \A b \in ObjectBlocks : OnDisk(mapblock, b) /\ database[b].objects[o] > 0 =>
       Old(database[b].stamp, m_last_clear_objects_time)

(* No timestamp is of the future, and a block that got its timestamp now,  *)
(* or is watched, is not unloaded yet.                                     *)
Past(stamp)   == stamp \in 0 .. m_game_time \/ stamp = BLOCK_TIMESTAMP_UNDEFINED
TimesTrue ==
  \A b \in ObjectBlocks : Past(Stamp(mapblock, database, b)) /\ Past(database[b].stamp)
InUse ==
  \A b \in ObjectBlocks :
    mapblock[b].inMemory /\ (b \in Watched \/ mapblock[b].stamp = m_game_time) => b \in recent

(* What is on disk with the timestamp of now holds nothing, or lists are   *)
(* not empty in memory either.                                             *)
HoldsNone(db, b) == \A o \in Objects : db[b].objects[o] = 0
Bare(mb, db, b)  == /\ \A o \in Objects : Lies(mb, db, b)[o] = 0
                    /\ \A i \in ObjectIds : mb[b].active[i] = NoObject
WrittenNow ==
  \A b \in ObjectBlocks : database[b].stamp = m_game_time =>
    /\ loop.op # "deactivate"
    /\ ~mapblock[b].inMemory => HoldsNone(database, b)
    /\ OnDisk(mapblock, b) => /\ Stamp(mapblock, database, b) = m_game_time
                              /\ Bare(mapblock, database, b) => HoldsNone(database, b)
                              /\ b \notin loop.blocks /\ b # loop.current
WatchedOnDisk ==
  /\ \A b \in ObjectBlocks : ~mapblock[b].inMemory /\ b \in Watched /\ b \notin loop.blocks
                               => HoldsNone(database, b)
  /\ loop.blocks \intersect loop.removed = {}
  /\ loop.current # NoBlock => mapblock[loop.current].stamp = m_game_time

ClearInv ==
  /\ TimesTrue /\ InUse /\ WrittenNow /\ WatchedOnDisk
  /\ \A o \in Objects : fate[o] = "cleared" => Emptied(o)
NeverStops == ~({"clear", "restart"} \subseteq scene)
ClearedInv == IF "clear" \in scene THEN "restart" \notin scene => ClearInv
              ELSE \A o \in Objects : fate[o] # "cleared"

(* Steps that change nothing of this: blocks are loaded, or get what is of *)
(* no object that was cleared.                                             *)
Kept ==
  /\ UNCHANGED <<database, ActiveBlocks, clock>> /\ recent \subseteq recent'
  /\ \A b \in ObjectBlocks :
       /\ mapblock[b].inMemory => mapblock'[b].inMemory
       /\ mapblock'[b].inMemory /\ ~mapblock[b].inMemory => b \in recent'
       /\ Stamp(mapblock', database, b) = Stamp(mapblock, database, b)
       /\ OnDisk(mapblock', b) => OnDisk(mapblock, b)
LoopKept ==
  /\ loop'.removed = loop.removed /\ loop.blocks \subseteq loop'.blocks
  /\ loop'.current \in {loop.current, NoBlock}
  /\ loop'.op = "deactivate" => loop.op = "deactivate"
  /\ \A b \in loop'.blocks \ loop.blocks : ~OnDisk(mapblock', b) /\ b \notin loop.removed
BareKept ==
  \A b \in ObjectBlocks : OnDisk(mapblock', b) /\ Bare(mapblock', database, b)
    => Bare(mapblock, database, b) \/ database[b].stamp # m_game_time
Fewer(o) ==
  /\ fate'[o] = "cleared" => fate[o] = "cleared"
  /\ fate[o] = "cleared" =>
       /\ \A i \in ObjectIds : sao'[i].who = o => /\ sao[i].who = o
                                                  /\ sao[i].removal => sao'[i].removal
       /\ \A b \in ObjectBlocks, i \in ObjectIds :
            mapblock'[b].active[i] = o => mapblock[b].active[i] = o
       /\ \A b \in ObjectBlocks :
            Lies(mapblock', database, b)[o] > 0 => Lies(mapblock, database, b)[o] > 0

LEMMA NowIs ==
  ASSUME ObjectsInv
  PROVE  /\ m_game_time \in Nat /\ m_last_clear_objects_time \in Nat
         /\ m_last_clear_objects_time <= m_game_time /\ m_game_time # BLOCK_TIMESTAMP_UNDEFINED
         /\ ~Old(m_game_time, m_last_clear_objects_time)
  BY ActiveObjectsAssumption DEF ObjectsInv, Old

LEMMA KeptClear ==
  ASSUME ObjectsInv, ObjectsInv', ClearInv, Kept, LoopKept, BareKept, \A o \in Objects : Fewer(o)
  PROVE  ClearInv'
<1>1. UNCHANGED <<database, ActiveBlocks, m_game_time, m_last_clear_objects_time>>
  BY DEF Kept, clock
<1>2. TimesTrue'
  BY <1>1 DEF ClearInv, TimesTrue, Past, Kept
<1>3. InUse'
  <2>1. SUFFICES ASSUME NEW b \in ObjectBlocks, mapblock'[b].inMemory,
                        b \in Watched' \/ mapblock'[b].stamp = m_game_time
                 PROVE  b \in recent'
    BY <1>1 DEF InUse
  <2>2. CASE ~mapblock[b].inMemory
    BY <2>1, <2>2 DEF Kept
  <2>3. CASE mapblock[b].inMemory
    <3>1. mapblock'[b].stamp = mapblock[b].stamp
      BY <2>1, <2>3 DEF Kept, Stamp
    <3>2. Watched' = Watched
      BY <1>1 DEF Watched, LoopKept
    <3>3. QED
      BY <2>1, <2>3, <3>1, <3>2 DEF ClearInv, InUse, Kept
  <2>4. QED
    BY <2>2, <2>3
<1>4. WrittenNow'
  <2>1. SUFFICES ASSUME NEW b \in ObjectBlocks, database[b].stamp = m_game_time
                 PROVE  /\ loop'.op # "deactivate"
                        /\ ~mapblock'[b].inMemory => HoldsNone(database, b)
                        /\ OnDisk(mapblock', b) =>
                             /\ Stamp(mapblock', database, b) = m_game_time
                             /\ Bare(mapblock', database, b) => HoldsNone(database, b)
                             /\ b \notin loop'.blocks /\ b # loop'.current
    BY <1>1 DEF WrittenNow
  <2>2. /\ loop.op # "deactivate"
        /\ ~mapblock[b].inMemory => HoldsNone(database, b)
        /\ OnDisk(mapblock, b) =>
             /\ Stamp(mapblock, database, b) = m_game_time
             /\ Bare(mapblock, database, b) => HoldsNone(database, b)
             /\ b \notin loop.blocks /\ b # loop.current
    BY <2>1 DEF ClearInv, WrittenNow
  <2>3. loop'.op # "deactivate" /\ (~mapblock'[b].inMemory => HoldsNone(database, b))
    BY <2>2 DEF Kept, LoopKept
  <2>4. ASSUME OnDisk(mapblock', b)
        PROVE  /\ Stamp(mapblock', database, b) = m_game_time
               /\ Bare(mapblock', database, b) => HoldsNone(database, b)
               /\ b \notin loop'.blocks /\ b # loop'.current
    <3>1. OnDisk(mapblock, b) /\ Stamp(mapblock', database, b) = Stamp(mapblock, database, b)
      BY <2>4 DEF Kept
    <3>2. Bare(mapblock', database, b) => Bare(mapblock, database, b)
      BY <2>1, <2>4 DEF BareKept
    <3>3. b \notin loop'.blocks /\ b # loop'.current
      BY <2>2, <2>4, <3>1, ActiveObjectsAssumption DEF LoopKept
    <3>4. QED
      BY <2>2, <3>1, <3>2, <3>3
  <2>5. QED
    BY <2>3, <2>4
<1>5. WatchedOnDisk'
  <2>1. \A b \in ObjectBlocks : ~mapblock'[b].inMemory /\ b \in Watched' /\ b \notin loop'.blocks
          => HoldsNone(database', b)
    BY <1>1 DEF ClearInv, WatchedOnDisk, Watched, Kept, LoopKept
  <2>2. loop'.blocks \intersect loop'.removed = {}
    BY DEF ClearInv, WatchedOnDisk, LoopKept
  <2>3. ASSUME loop'.current # NoBlock PROVE mapblock'[loop'.current].stamp = m_game_time'
    <3>1. /\ loop'.current = loop.current /\ loop.current \in ObjectBlocks
          /\ mapblock[loop.current].inMemory
      BY <2>3 DEF LoopKept, ObjectsInv, LoopInv, LoopType
    <3>2. mapblock'[loop.current].stamp = mapblock[loop.current].stamp
      BY <3>1 DEF Kept, Stamp
    <3>3. QED
      BY <1>1, <2>3, <3>1, <3>2 DEF ClearInv, WatchedOnDisk
  <2>4. QED
    BY <2>1, <2>2, <2>3 DEF WatchedOnDisk
<1>6. ASSUME NEW o \in Objects, fate'[o] = "cleared"
      PROVE  Emptied(o)'
  <2>1. fate[o] = "cleared" /\ Emptied(o)
    BY <1>6 DEF Fewer, ClearInv
  <2>2. /\ \A i \in ObjectIds : sao'[i].who = o => /\ sao[i].who = o
                                                   /\ sao[i].removal => sao'[i].removal
        /\ \A b \in ObjectBlocks, i \in ObjectIds :
             mapblock'[b].active[i] = o => mapblock[b].active[i] = o
        /\ \A b \in ObjectBlocks :
             Lies(mapblock', database, b)[o] > 0 => Lies(mapblock, database, b)[o] > 0
    BY <2>1 DEF Fewer
  <2>3. \A b \in ObjectBlocks : Lies(mapblock', database', b)[o] > 0 =>
          /\ Old(Stamp(mapblock', database', b), m_last_clear_objects_time')
          /\ b \in Watched' => b \in loop'.blocks
    BY <1>1, <2>1, <2>2 DEF Emptied, Kept, LoopKept, Watched
  <2>4. \A b \in ObjectBlocks : OnDisk(mapblock', b) /\ database'[b].objects[o] > 0 =>
          Old(database'[b].stamp, m_last_clear_objects_time')
    BY <1>1, <2>1 DEF Emptied, Kept
  <2>5. QED
    BY <2>1, <2>2, <2>3, <2>4 DEF Emptied
<1>7. QED
  BY <1>2, <1>3, <1>4, <1>5, <1>6 DEF ClearInv

LEMMA LoopGoesOnKept ==
  ASSUME ObjectsInv, NEW i, loop' = loop \/ loop' = [loop EXCEPT !.ids = @ \ {i}]
  PROVE  LoopKept
<1>1. loop \in LoopType
  BY DEF ObjectsInv, LoopInv
<1>2. loop'.removed = loop.removed /\ loop'.blocks = loop.blocks /\ loop'.current = loop.current
      /\ loop'.op = loop.op
  BY <1>1 DEF LoopType
<1>3. QED
  BY <1>2 DEF LoopKept

LEMMA ChangedKept ==
  ASSUME UNCHANGED <<database, ActiveBlocks, clock>>, recent' = recent \union Loaded(mapblock'),
         NEW i, NEW o, NEW c, NEW c2,
         \/ Changed(mapblock, database, mapblock', i, o, c, c2)
         \/ Same(mapblock, database, mapblock')
  PROVE  Kept
  BY DEF Kept, Changed, Same, Loaded

LEMMA ChangedBare ==
  ASSUME ObjectsInv, NEW i \in ObjectIds, NEW o, NEW c, NEW c2,
         Changed(mapblock, database, mapblock', i, o, c, c2),
         \A b \in ObjectBlocks : mapblock[b].active[i] # NoObject =>
           ~OnDisk(mapblock', b) \/ database[b].stamp # m_game_time
  PROVE  BareKept
<1>1. SUFFICES ASSUME NEW b \in ObjectBlocks, OnDisk(mapblock', b), Bare(mapblock', database, b),
                      database[b].stamp = m_game_time
               PROVE  Bare(mapblock, database, b)
  BY DEF BareKept
<1>2. ASSUME NEW x \in Objects PROVE Lies(mapblock, database, b)[x] = 0
  <2>1. Lies(mapblock, database, b)[x] \in Nat
    BY LiesIs DEF ObjectsInv
  <2>2. Lies(mapblock', database, b)[x] = 0
    BY <1>1 DEF Bare
  <2>3. \/ Lies(mapblock', database, b)[x] = Lies(mapblock, database, b)[x] + 0
        \/ Lies(mapblock', database, b)[x] = Lies(mapblock, database, b)[x] + 1
    BY DEF Changed
  <2>4. QED
    BY <2>1, <2>2, <2>3
<1>3. ASSUME NEW j \in ObjectIds PROVE mapblock[b].active[j] = NoObject
  BY <1>1 DEF Bare, Changed
<1>4. QED
  BY <1>2, <1>3 DEF Bare

LEMMA SameBare ==
  ASSUME Same(mapblock, database, mapblock')
  PROVE  BareKept
  BY DEF Same, BareKept, Bare

LEMMA ChangedFewer ==
  ASSUME ObjectsInv, NEW i \in ObjectIds, NEW o \in Objects, NEW c, NEW c2,
         Changed(mapblock, database, mapblock', i, o, c, c2),
         \A j \in ObjectIds : j # i => sao'[j] = sao[j],
         \/ fate[o] # "cleared" /\ sao'[i].who \in {o, NoObject}
         \/ /\ c = NoBlock /\ c2 = NoBlock
            /\ sao'[i].who \in Objects => sao'[i].who = sao[i].who /\ sao'[i].removal = sao[i].removal,
         NEW x \in Objects, fate'[x] = "cleared" => fate[x] = "cleared"
  PROVE  Fewer(x)
<1>1. NoObject \notin Objects /\ NoBlock \notin ObjectBlocks
  BY ActiveObjectsAssumption
<1>2. CASE fate[o] # "cleared" /\ sao'[i].who \in {o, NoObject}
  <2>1. SUFFICES ASSUME fate[x] = "cleared", x # o
                 PROVE  /\ \A j \in ObjectIds : sao'[j].who = x =>
                             sao[j].who = x /\ (sao[j].removal => sao'[j].removal)
                        /\ \A b \in ObjectBlocks, j \in ObjectIds :
                             mapblock'[b].active[j] = x => mapblock[b].active[j] = x
                        /\ \A b \in ObjectBlocks :
                             Lies(mapblock', database, b)[x] > 0 => Lies(mapblock, database, b)[x] > 0
    BY <1>2 DEF Fewer
  <2>2. \A b \in ObjectBlocks, j \in ObjectIds :
          mapblock'[b].active[j] = x => mapblock[b].active[j] = x
    BY <1>1, <2>1 DEF Changed
  <2>3. ASSUME NEW b \in ObjectBlocks, Lies(mapblock', database, b)[x] > 0
        PROVE  Lies(mapblock, database, b)[x] > 0
    <3>1. Lies(mapblock, database, b)[x] \in Nat
      BY LiesIs DEF ObjectsInv
    <3>2. Lies(mapblock', database, b)[x] = Lies(mapblock, database, b)[x] + 0
      BY <2>1 DEF Changed
    <3>3. QED
      BY <2>3, <3>1, <3>2
  <2>4. \A j \in ObjectIds : sao'[j].who = x =>
          sao[j].who = x /\ (sao[j].removal => sao'[j].removal)
    BY <1>1, <1>2, <2>1
  <2>5. QED
    BY <2>2, <2>3, <2>4
<1>3. CASE /\ c = NoBlock /\ c2 = NoBlock
           /\ sao'[i].who \in Objects => sao'[i].who = sao[i].who /\ sao'[i].removal = sao[i].removal
  <2>1. \A b \in ObjectBlocks, j \in ObjectIds :
          mapblock'[b].active[j] = x => mapblock[b].active[j] = x
    BY <1>1, <1>3 DEF Changed
  <2>2. ASSUME NEW b \in ObjectBlocks, Lies(mapblock', database, b)[x] > 0
        PROVE  Lies(mapblock, database, b)[x] > 0
    <3>1. Lies(mapblock, database, b)[x] \in Nat
      BY LiesIs DEF ObjectsInv
    <3>2. Lies(mapblock', database, b)[x] = Lies(mapblock, database, b)[x] + 0
      BY <1>1, <1>3 DEF Changed
    <3>3. QED
      BY <2>2, <3>1, <3>2
  <2>3. \A j \in ObjectIds : sao'[j].who = x =>
          sao[j].who = x /\ (sao[j].removal => sao'[j].removal)
    BY <1>3
  <2>4. QED
    BY <2>1, <2>2, <2>3 DEF Fewer
<1>4. QED
  BY <1>2, <1>3

LEMMA NotCleared ==
  ASSUME ClearInv, NEW i \in ObjectIds, sao[i].who \in Objects, ~sao[i].removal
  PROVE  fate[sao[i].who] # "cleared"
  BY DEF ClearInv, Emptied

LEMMA Add_Cleared ==
  ASSUME ObjectsInv, ObjectsInv', ClearInv, NEW o \in Objects, NEW b \in ObjectBlocks,
         addActiveObject(o, b)
  PROVE  ClearInv'
<1>1. PICK i \in ObjectIds :
           /\ i \notin Instances /\ sao' = [sao EXCEPT ![i] = Registered(o, b)]
           /\ Memory(mapblock') /\ Changed(mapblock, database, mapblock', i, o, b, NoBlock)
           /\ ~OnDisk(mapblock', b)
  BY AddIs
<1>2. /\ UNCHANGED <<database, ActiveBlocks, clock, loop>> /\ fate[o] = "unborn"
      /\ fate' = [fate EXCEPT ![o] = "living"] /\ recent' = recent \union Loaded(mapblock')
  BY DEF addActiveObject, Keep
<1>3. NotEntered(mapblock, i) /\ Registered(o, b) \in SaoType /\ Registered(o, b).who = o
  BY <1>1, InstanceIs, TypesOfNothing DEF Registered, SaoType
<1>4. sao'[i].who = o /\ \A j \in ObjectIds : j # i => sao'[j] = sao[j]
  BY <1>1, <1>3 DEF ObjectsInv, Instanced
<1>5. Kept /\ LoopKept
  BY <1>1, <1>2, ChangedKept, LoopGoesOnKept
<1>6. BareKept
  BY <1>1, <1>3, ChangedBare DEF NotEntered
<1>7. ASSUME NEW x \in Objects PROVE Fewer(x)
  <2>1. fate'[x] = "cleared" => fate[x] = "cleared"
    BY <1>2 DEF ObjectsInv
  <2>2. QED
    BY <1>1, <1>2, <1>4, <2>1, ChangedFewer
<1>8. QED
  BY <1>5, <1>6, <1>7, KeptClear

LEMMA NotNow ==
  ASSUME ClearInv, loop.op = "deactivate"
  PROVE  \A b \in ObjectBlocks : database[b].stamp # m_game_time
  BY DEF ClearInv, WrittenNow

LEMMA Resave_Cleared ==
  ASSUME ObjectsInv, ObjectsInv', ClearInv, NEW i \in ObjectIds, ResaveStatic(i)
  PROVE  ClearInv'
<1>1. /\ i \in Instances /\ loop.op = "deactivate" /\ ~Gone(i)
      /\ loop' = [loop EXCEPT !.ids = @ \ {i}]
  BY ResaveIs
<1>2. PICK c \in SpotBlocks : \E st \in SpotBlocks : Resaved(i, sao[i], c, st)
  BY ResaveIs
<1>3. PICK st \in SpotBlocks : Resaved(i, sao[i], c, st)
  BY <1>2
<1>4. /\ Changed(mapblock, database, mapblock', i, sao[i].who, c, NoBlock)
      /\ sao' = [sao EXCEPT ![i].static = st]
  BY <1>3 DEF Resaved
<1>5. /\ UNCHANGED <<database, ActiveBlocks, clock, fate>>
      /\ recent' = recent \union Loaded(mapblock')
  BY DEF ResaveStatic, Keep
<1>6. sao[i].who \in Objects /\ sao[i] \in SaoType /\ sao \in [ObjectIds -> SaoType]
  BY <1>1, InstanceIs DEF ObjectsInv, Instanced
<1>7. /\ sao'[i].who = sao[i].who /\ fate[sao[i].who] # "cleared"
      /\ \A j \in ObjectIds : j # i => sao'[j] = sao[j]
  BY <1>1, <1>4, <1>6, NotCleared DEF SaoType, Gone
<1>8. Kept /\ LoopKept
  BY <1>1, <1>4, <1>5, ChangedKept, LoopGoesOnKept
<1>9. BareKept
  BY <1>1, <1>4, NotNow, ChangedBare
<1>10. ASSUME NEW x \in Objects PROVE Fewer(x)
  BY <1>4, <1>5, <1>6, <1>7, ChangedFewer
<1>11. QED
  BY <1>8, <1>9, <1>10, KeptClear

LEMMA Deactivate_Cleared ==
  ASSUME ObjectsInv, ObjectsInv', ClearInv, NEW i \in ObjectIds, Deactivate(i), ~loop.force
  PROVE  ClearInv'
<1>1. /\ i \in Instances /\ loop.op = "deactivate" /\ ~Gone(i)
      /\ loop' = [loop EXCEPT !.ids = @ \ {i}]
  BY DeactivateIs
<1>2. PICK c \in SpotBlocks : \E c2 \in SpotBlocks : \E w \in BOOLEAN :
         Deactivated(i, sao[i], c, c2, w)
  BY DeactivateIs
<1>3. PICK c2 \in SpotBlocks : \E w \in BOOLEAN : Deactivated(i, sao[i], c, c2, w)
  BY <1>2
<1>4. PICK w \in BOOLEAN : Deactivated(i, sao[i], c, c2, w)
  BY <1>3
<1>5. /\ Changed(mapblock, database, mapblock', i, sao[i].who, c, c2)
      /\ Waits(i, sao[i]) \/ Leaves(i)
      /\ \A x \in Objects : fate'[x] = "cleared" => fate[x] = "cleared"
  BY <1>4 DEF Deactivated, ObjectsInv
<1>6. /\ UNCHANGED <<database, ActiveBlocks, clock>> /\ recent' = recent \union Loaded(mapblock')
  BY DEF Deactivate, Keep
<1>7. sao[i].who \in Objects /\ sao[i] \in SaoType /\ sao \in [ObjectIds -> SaoType]
  BY <1>1, InstanceIs DEF ObjectsInv, Instanced
<1>8. /\ sao'[i].who \in {sao[i].who, NoObject}
      /\ \A j \in ObjectIds : j # i => sao'[j] = sao[j]
  <2>1. CASE Waits(i, sao[i])
    BY <1>7, <2>1 DEF Waits, SaoType
  <2>2. CASE Leaves(i)
    BY <1>7, <2>2 DEF Leaves, NoSao
  <2>3. QED
    BY <1>5, <2>1, <2>2
<1>9. fate[sao[i].who] # "cleared"
  BY <1>1, <1>7, NotCleared DEF Gone
<1>10. Kept /\ LoopKept
  BY <1>1, <1>5, <1>6, ChangedKept, LoopGoesOnKept
<1>11. BareKept
  BY <1>1, <1>5, NotNow, ChangedBare
<1>12. ASSUME NEW x \in Objects PROVE Fewer(x)
  BY <1>5, <1>7, <1>8, <1>9, ChangedFewer
<1>13. QED
  BY <1>10, <1>11, <1>12, KeptClear

LEMMA Remove_Cleared ==
  ASSUME ObjectsInv, ObjectsInv', ClearInv, NEW i \in ObjectIds, removeRemovedObject(i)
  PROVE  ClearInv'
<1> DEFINE s == sao[i]
<1>1. /\ i \in Instances /\ loop' = [loop EXCEPT !.ids = @ \ {i}]
  BY RemoveIs
<1>2. /\ UNCHANGED <<database, ActiveBlocks, clock, fate>>
      /\ recent' = recent \union Loaded(mapblock')
  BY DEF removeRemovedObject, Keep
<1>3. /\ s.who \in Objects /\ s \in SaoType /\ sao \in [ObjectIds -> SaoType]
      /\ NoSao.who = NoObject /\ NoObject \notin Objects
  BY <1>1, InstanceIs, ActiveObjectsAssumption DEF ObjectsInv, Instanced, NoSao
<1>4. LoopKept
  BY <1>1, LoopGoesOnKept
<1>5. CASE /\ s.removal
           /\ Changed(mapblock, database, mapblock', i, s.who, NoBlock, NoBlock)
           /\ \A b \in ObjectBlocks : mapblock[b].active[i] # NoObject => ~OnDisk(mapblock', b)
           /\ \/ ~s.known /\ sao' = [sao EXCEPT ![i] = NoSao]
              \/ \E st \in ObjectBlocks \union {NoBlock} : sao' = [sao EXCEPT ![i].static = st]
  <2>1. /\ \A j \in ObjectIds : j # i => sao'[j] = sao[j]
        /\ sao'[i].who \in Objects => sao'[i].who = s.who /\ sao'[i].removal = s.removal
    BY <1>3, <1>5 DEF SaoType
  <2>2. Kept
    BY <1>2, <1>5, ChangedKept
  <2>3. BareKept
    BY <1>5, ChangedBare
  <2>4. ASSUME NEW x \in Objects PROVE Fewer(x)
    BY <1>2, <1>3, <1>5, <2>1, ChangedFewer
  <2>5. QED
    BY <1>4, <2>2, <2>3, <2>4, KeptClear
<1>6. CASE ~s.removal /\ s.known /\ mapblock' = mapblock /\ sao' = sao
  <2>1. Same(mapblock, database, mapblock')
    BY <1>6 DEF Same
  <2>2. Kept /\ BareKept
    BY <1>2, <2>1, ChangedKept, SameBare
  <2>3. ASSUME NEW x \in Objects PROVE Fewer(x)
    BY <1>2, <1>6 DEF Fewer
  <2>4. QED
    BY <1>4, <2>2, <2>3, KeptClear
<1>7. CASE /\ ~s.removal /\ sao' = [sao EXCEPT ![i] = NoSao] /\ NotEntered(mapblock, i)
           /\ Same(mapblock, database, mapblock')
  <2>1. Kept /\ BareKept
    BY <1>2, <1>7, ChangedKept, SameBare
  <2>2. ASSUME NEW x \in Objects PROVE Fewer(x)
    BY <1>2, <1>3, <1>7 DEF Fewer, Same
  <2>3. QED
    BY <1>4, <2>1, <2>2, KeptClear
<1>8. CASE /\ ~s.removal /\ sao' = [sao EXCEPT ![i] = NoSao]
           /\ s.static \in ObjectBlocks /\ mapblock[s.static].active[i] = s.who
           /\ Changed(mapblock, database, mapblock', i, s.who, NoBlock, s.static)
           /\ ~OnDisk(mapblock', s.static)
  <2>1. /\ \A j \in ObjectIds : j # i => sao'[j] = sao[j]
        /\ sao'[i].who = NoObject /\ fate[s.who] # "cleared"
    BY <1>3, <1>8, NotCleared
  <2>2. Kept
    BY <1>2, <1>8, ChangedKept
  <2>3. \A b \in ObjectBlocks : mapblock[b].active[i] # NoObject => ~OnDisk(mapblock', b)
    BY <1>8, InstanceIs
  <2>4. BareKept
    BY <1>8, <2>3, ChangedBare
  <2>5. ASSUME NEW x \in Objects PROVE Fewer(x)
    BY <1>2, <1>3, <1>8, <2>1, ChangedFewer
  <2>6. QED
    BY <1>4, <2>2, <2>4, <2>5, KeptClear
<1>9. QED
  BY <1>5, <1>6, <1>7, <1>8, RemoveIs

(* Of an object that was cleared none is left in the block of which the    *)
(* objects are activated.                                                  *)
LEMMA ActivateObject_Cleared ==
  ASSUME ObjectsInv, ObjectsInv', ClearInv, NEW b \in ObjectBlocks, NEW o \in Objects,
         activateObject(b, o)
  PROVE  ClearInv'
<1>1. /\ loop.op = "activate" /\ loop.current = b /\ loop' = loop
      /\ mapblock[b].inMemory /\ mapblock[b].stored[o] > 0
      /\ \A c \in ObjectBlocks : c # b => mapblock'[c] = mapblock[c]
      /\ mapblock'[b].inMemory /\ mapblock'[b].stamp = mapblock[b].stamp
      /\ mapblock'[b].modified = mapblock[b].modified
      /\ mapblock'[b].stored = [mapblock[b].stored EXCEPT ![o] = @ - 1]
  BY ActivateIs
<1>2. UNCHANGED <<database, ActiveBlocks, recent, clock>>
  BY DEF activateObject
<1>3. Kept /\ LoopKept
  <2>1. Kept
    BY <1>1, <1>2 DEF Kept, Stamp, OnDisk
  <2>2. QED
    BY <1>1, <2>1, LoopGoesOnKept
<1>4. BareKept
  <2>1. SUFFICES ASSUME NEW c \in ObjectBlocks, OnDisk(mapblock', c), Bare(mapblock', database, c),
                        database[c].stamp = m_game_time
                 PROVE  Bare(mapblock, database, c)
    BY DEF BareKept
  <2>2. OnDisk(mapblock, c)
    BY <1>3, <2>1 DEF Kept
  <2>3. c # b
    BY <1>1, <2>1, <2>2 DEF ClearInv, WrittenNow
  <2>4. QED
    BY <1>1, <2>1, <2>3 DEF Bare, Lies
<1>5. fate[o] # "cleared"
  <2>1. SUFFICES ASSUME fate[o] = "cleared" PROVE FALSE
    OBVIOUS
  <2>2. Lies(mapblock, database, b)[o] > 0 /\ Stamp(mapblock, database, b) = mapblock[b].stamp
    BY <1>1 DEF Lies, Stamp
  <2>3. Old(mapblock[b].stamp, m_last_clear_objects_time)
    BY <2>1, <2>2 DEF ClearInv, Emptied
  <2>4. mapblock[b].stamp = m_game_time
    BY <1>1, ActiveObjectsAssumption DEF ClearInv, WatchedOnDisk
  <2>5. QED
    BY <2>3, <2>4, NowIs
<1>6. mapblock[b].stored \in Counts /\ mapblock[b].active \in Entries /\ sao \in [ObjectIds -> SaoType]
      /\ fate \in [Objects -> Fates]
  BY BlockIs DEF ObjectsInv, Instanced
<1>7. ASSUME NEW x \in Objects PROVE Fewer(x)
  <2>1. fate'[x] = "cleared" => fate[x] = "cleared"
    <3>1. fate' = [fate EXCEPT ![o] = IF @ = "living" THEN "lost" ELSE @] \/ fate' = fate
      BY ActivateIs
    <3>2. QED
      BY <1>6, <3>1
  <2>2. SUFFICES ASSUME x # o
                 PROVE  /\ \A i \in ObjectIds : sao'[i].who = x => sao'[i] = sao[i]
                        /\ \A c \in ObjectBlocks, i \in ObjectIds :
                             mapblock'[c].active[i] = x => mapblock[c].active[i] = x
                        /\ \A c \in ObjectBlocks :
                             Lies(mapblock', database, c)[x] = Lies(mapblock, database, c)[x]
    BY <1>5, <2>1 DEF Fewer
  <2>3. \A c \in ObjectBlocks : Lies(mapblock', database, c)[x] = Lies(mapblock, database, c)[x]
    BY <1>1, <1>6, <2>2 DEF Lies, Counts
  <2>4. CASE mapblock'[b].active = mapblock[b].active /\ sao' = sao
    BY <1>1, <2>3, <2>4
  <2>5. ASSUME NEW i \in ObjectIds, sao' = [sao EXCEPT ![i] = Registered(o, b)],
               mapblock'[b].active = [mapblock[b].active EXCEPT ![i] = o]
        PROVE  /\ \A j \in ObjectIds : sao'[j].who = x => sao'[j] = sao[j]
               /\ \A c \in ObjectBlocks, j \in ObjectIds :
                    mapblock'[c].active[j] = x => mapblock[c].active[j] = x
    <3>1. Registered(o, b).who = o
      BY DEF Registered, NoSao
    <3>2. \A j \in ObjectIds : sao'[j].who = x => sao'[j] = sao[j]
      BY <1>6, <2>2, <2>5, <3>1
    <3>3. ASSUME NEW c \in ObjectBlocks, NEW j \in ObjectIds, mapblock'[c].active[j] = x
          PROVE  mapblock[c].active[j] = x
      BY <1>1, <1>6, <2>2, <2>5, <3>3 DEF Entries
    <3>4. QED
      BY <3>2, <3>3
  <2>6. \/ mapblock'[b].active = mapblock[b].active /\ sao' = sao
        \/ \E i \in ObjectIds : /\ i \notin Instances /\ sao' = [sao EXCEPT ![i] = Registered(o, b)]
                                /\ mapblock'[b].active = [mapblock[b].active EXCEPT ![i] = o]
                                /\ fate' = fate
    BY ActivateIs
  <2>7. QED
    BY <2>3, <2>4, <2>5, <2>6
<1>8. QED
  BY <1>3, <1>4, <1>7, KeptClear

LEMMA Load_Cleared ==
  ASSUME ObjectsInv, ObjectsInv', ClearInv, NEW b \in ObjectBlocks,
         loadFromDisk(b) \/ finishGenOf(b)
  PROVE  ClearInv'
<1> DEFINE e == Emerged(mapblock, b)
<1>1. Memory(mapblock) /\ Disk(database)
  BY DEF ObjectsInv
<1>2. Memory(e) /\ e[b].inMemory /\ Same(mapblock, database, e)
  BY <1>1, EmergedIs
<1>3. UNCHANGED <<sao, database, ActiveBlocks, clock, fate>> /\ recent' = recent \union Loaded(mapblock')
      /\ loop = NoLoop
  BY DEF loadFromDisk, finishGenOf, Keep, Quiet
<1>4. CASE loadFromDisk(b)
  <2>1. mapblock' = e /\ loop' = loop
    BY <1>4 DEF loadFromDisk, Keep
  <2>2. Same(mapblock, database, mapblock')
    BY <1>2, <2>1
  <2>3. Kept /\ BareKept /\ LoopKept
    BY <1>3, <2>1, <2>2, ChangedKept, SameBare, LoopGoesOnKept
  <2>4. ASSUME NEW x \in Objects PROVE Fewer(x)
    BY <1>3, <2>2 DEF Fewer, Same
  <2>5. QED
    BY <2>3, <2>4, KeptClear
<1>5. CASE finishGenOf(b)
  <2>1. /\ mapblock' = [e EXCEPT ![b].modified = TRUE]
        /\ loop' = [NoLoop EXCEPT !.op = "activate", !.blocks = {b}]
    BY <1>5 DEF finishGenOf, Keep
  <2> HIDE DEF e
  <2>2. e[b] \in BlockType /\ e \in [ObjectBlocks -> BlockType]
    BY <1>2 DEF Memory
  <2>3. /\ mapblock'[b] = [e[b] EXCEPT !.modified = TRUE]
        /\ \A c \in ObjectBlocks : c # b => mapblock'[c] = e[c]
    BY <2>1, <2>2
  <2>4. /\ mapblock'[b].inMemory /\ mapblock'[b].modified
        /\ mapblock'[b].active = e[b].active /\ mapblock'[b].stored = e[b].stored
        /\ mapblock'[b].stamp = e[b].stamp
    BY <1>2, <2>2, <2>3 DEF BlockType
  <2>5. \A c \in ObjectBlocks : /\ e[c].inMemory => mapblock'[c].inMemory
                                /\ Stamp(mapblock', database, c) = Stamp(e, database, c)
                                /\ Lies(mapblock', database, c) = Lies(e, database, c)
                                /\ mapblock'[c].active = e[c].active
                                /\ OnDisk(mapblock', c) => OnDisk(e, c)
    BY <1>2, <2>3, <2>4 DEF Stamp, Lies, OnDisk
  <2>6. Same(mapblock, database, mapblock')
    BY <1>2, <2>5 DEF Same
  <2>7. Kept /\ BareKept
    BY <1>3, <2>6, ChangedKept, SameBare
  <2>8. LoopKept
    <3>1. /\ loop'.op = "activate" /\ loop'.blocks = {b} /\ loop'.removed = {}
          /\ loop'.current = NoBlock
      BY <2>1, NoLoopIs DEF NoLoop, LoopType
    <3>2. ~OnDisk(mapblock', b)
      BY <2>4 DEF OnDisk
    <3>3. QED
      BY <1>3, <3>1, <3>2, NoLoopIs DEF LoopKept
  <2>9. ASSUME NEW x \in Objects PROVE Fewer(x)
    BY <1>3, <2>6 DEF Fewer, Same
  <2>10. QED
    BY <2>7, <2>8, <2>9, KeptClear
<1>6. QED
  BY <1>4, <1>5

LEMMA NoBlocks_Cleared ==
  ASSUME ObjectsInv, ObjectsInv', ClearInv, UNCHANGED <<mapblock, database, ActiveBlocks, recent, clock>>,
         LoopKept, \A o \in Objects : fate'[o] = "cleared" => fate[o] = "cleared",
         \A i \in ObjectIds : sao'[i].who = sao[i].who /\ (sao[i].removal => sao'[i].removal)
  PROVE  ClearInv'
<1>1. Kept /\ BareKept
  BY DEF Kept, BareKept
<1>2. \A o \in Objects : Fewer(o)
  BY DEF Fewer
<1>3. QED
  BY <1>1, <1>2, KeptClear

LEMMA Others_Cleared ==
  ASSUME ObjectsInv, ObjectsInv', ClearInv
  PROVE  /\ (\E i \in ObjectIds : StaysActive(i)) \/ (\E b \in ObjectBlocks : BlockActivated(b))
              => ClearInv'
         /\ EndActivation \/ BeginRemoval \/ EndRemoval => ClearInv'
         /\ \A i \in ObjectIds : KnownByClients(i) \/ markForRemoval(i) => ClearInv'
         /\ \A i \in ObjectIds, b \in ObjectBlocks : MoveObject(i, b) => ClearInv'
<1>1. loop \in LoopType /\ sao \in [ObjectIds -> SaoType] /\ fate \in [Objects -> Fates]
  BY DEF ObjectsInv, LoopInv, Instanced
<1>2. ASSUME UNCHANGED <<sao, mapblock, database, ActiveBlocks, recent, clock, fate>>, LoopKept
      PROVE  ClearInv'
  BY <1>2, NoBlocks_Cleared
<1>3. ASSUME NEW i \in ObjectIds, StaysActive(i) PROVE ClearInv'
  BY <1>2, <1>3, LoopGoesOnKept DEF StaysActive, Done
<1>4. ASSUME NEW b \in ObjectBlocks, BlockActivated(b) PROVE ClearInv'
  <2>1. /\ loop'.op = loop.op /\ loop'.blocks = loop.blocks /\ loop'.removed = loop.removed
        /\ loop'.current = NoBlock
    BY <1>1, <1>4 DEF BlockActivated, LoopType
  <2>2. LoopKept
    BY <2>1 DEF LoopKept
  <2>3. QED
    BY <1>2, <1>4, <2>2 DEF BlockActivated
<1>5. ASSUME EndActivation \/ EndRemoval PROVE ClearInv'
  <2>1. loop' = NoLoop /\ loop.blocks = {} /\ loop.removed = {}
    BY <1>5 DEF EndActivation, EndRemoval, ObjectsInv, LoopInv
  <2>2. LoopKept
    BY <2>1, NoLoopIs DEF LoopKept
  <2>3. QED
    BY <1>2, <1>5, <2>2 DEF EndActivation, EndRemoval
<1>6. ASSUME BeginRemoval PROVE ClearInv'
  <2>1. loop = NoLoop /\ loop' = [NoLoop EXCEPT !.op = "remove", !.ids = {i \in Instances : Gone(i)}]
    BY <1>6 DEF BeginRemoval, Quiet
  <2>2. /\ loop'.op = "remove" /\ loop'.blocks = {} /\ loop'.removed = {} /\ loop'.current = NoBlock
    BY <2>1, NoLoopIs DEF NoLoop
  <2>3. LoopKept
    BY <2>1, <2>2, NoLoopIs DEF LoopKept
  <2>4. QED
    BY <1>2, <1>6, <2>3 DEF BeginRemoval
<1>7. ASSUME NEW i \in ObjectIds,
             \/ KnownByClients(i) \/ markForRemoval(i)
             \/ \E b \in ObjectBlocks : MoveObject(i, b)
      PROVE  ClearInv'
  <2>1. UNCHANGED <<mapblock, database, ActiveBlocks, recent, clock, loop>>
    BY <1>7 DEF KnownByClients, markForRemoval, MoveObject, Outside
  <2>2. \A o \in Objects : fate'[o] = "cleared" => fate[o] = "cleared"
    BY <1>1, <1>7 DEF KnownByClients, markForRemoval, MoveObject
  <2>3. \A j \in ObjectIds : sao'[j].who = sao[j].who /\ (sao[j].removal => sao'[j].removal)
    <3>1. \/ \E b \in ObjectBlocks : sao' = [sao EXCEPT ![i].at = b]
          \/ sao' = [sao EXCEPT ![i].known = ~@]
          \/ sao' = [sao EXCEPT ![i].removal = TRUE]
      BY <1>7 DEF KnownByClients, markForRemoval, MoveObject
    <3>2. QED
      BY <1>1, <3>1 DEF SaoType
  <2>4. LoopKept
    BY <2>1, LoopGoesOnKept
  <2>5. QED
    BY <2>1, <2>2, <2>3, <2>4, NoBlocks_Cleared
<1>8. QED
  BY <1>3, <1>4, <1>5, <1>6, <1>7

LEMMA Manage_Cleared ==
  ASSUME ObjectsInv, ClearInv, NEW newlist \in SUBSET ObjectBlocks, ManageActiveBlocks(newlist)
  PROVE  ClearInv'
<1>1. /\ UNCHANGED <<sao, mapblock, database, m_last_clear_objects_time, fate>>
      /\ ActiveBlocks' = newlist /\ loop = NoLoop
      /\ recent' = (ActiveBlocks \union newlist) \intersect {b \in ObjectBlocks : mapblock[b].inMemory}
      /\ m_game_time < MaxTime /\ m_game_time' = m_game_time + 1
      /\ loop' = [NoLoop EXCEPT !.op = "deactivate", !.ids = Instances,
                            !.blocks = newlist \ ActiveBlocks,
                            !.removed = ActiveBlocks \ newlist]
  BY DEF ManageActiveBlocks, Quiet
<1>2. /\ loop'.op = "deactivate" /\ loop'.blocks = newlist \ ActiveBlocks
      /\ loop'.removed = ActiveBlocks \ newlist /\ loop'.current = NoBlock
      /\ loop.blocks = {} /\ loop.removed = {}
  BY <1>1, NoLoopIs DEF NoLoop
<1>3. Watched = ActiveBlocks /\ Watched' = newlist \union ActiveBlocks
  BY <1>1, <1>2 DEF Watched
<1>4. m_game_time \in Nat /\ MaxTime \in Nat /\ m_game_time' \in 0 .. MaxTime
  BY <1>1, ActiveObjectsAssumption DEF ObjectsInv
<1>5. \A stamp : Past(stamp) => Past(stamp)' /\ stamp # m_game_time'
  BY <1>1, <1>4, ActiveObjectsAssumption DEF Past
<1>6. ASSUME NEW b \in ObjectBlocks
      PROVE  Past(Stamp(mapblock, database, b)) /\ Past(database[b].stamp)
  BY DEF ClearInv, TimesTrue
<1>7. TimesTrue'
  <2>1. SUFFICES ASSUME NEW b \in ObjectBlocks
                 PROVE  Past(Stamp(mapblock, database, b))' /\ Past(database[b].stamp)'
    BY <1>1 DEF TimesTrue
  <2>2. Past(Stamp(mapblock, database, b)) /\ Past(database[b].stamp)
    BY <1>6
  <2>3. QED
    BY <1>1, <1>4, <2>2 DEF Past, Stamp
<1>8. InUse'
  <2>1. SUFFICES ASSUME NEW b \in ObjectBlocks, mapblock[b].inMemory,
                        b \in Watched' \/ mapblock[b].stamp = m_game_time'
                 PROVE  b \in recent'
    BY <1>1 DEF InUse
  <2>2. mapblock[b].stamp # m_game_time'
    BY <1>5, <1>6, <2>1 DEF Stamp
  <2>3. QED
    BY <1>1, <1>3, <2>1, <2>2
<1>9. WrittenNow'
  <2>1. \A b \in ObjectBlocks : database'[b].stamp # m_game_time'
    BY <1>1, <1>5, <1>6
  <2>2. QED
    BY <2>1 DEF WrittenNow
<1>10. WatchedOnDisk'
  BY <1>1, <1>2, <1>3 DEF ClearInv, WatchedOnDisk
<1>11. ASSUME NEW o \in Objects, fate'[o] = "cleared" PROVE Emptied(o)'
  <2>1. Emptied(o)
    BY <1>1, <1>11 DEF ClearInv
  <2>2. \A b \in ObjectBlocks : Lies(mapblock', database', b)[o] > 0 =>
          /\ Old(Stamp(mapblock', database', b), m_last_clear_objects_time')
          /\ b \in Watched' => b \in loop'.blocks
    BY <1>1, <1>2, <1>3, <2>1 DEF Emptied
  <2>3. QED
    BY <1>1, <2>1, <2>2 DEF Emptied
<1>12. QED
  BY <1>7, <1>8, <1>9, <1>10, <1>11 DEF ClearInv

LEMMA EndDeactivation_Cleared ==
  ASSUME ObjectsInv, ClearInv, EndDeactivation
  PROVE  ClearInv'
<1> DEFINE there == {b \in loop.blocks : mapblock[b].inMemory}
<1>1. /\ UNCHANGED <<sao, database, recent, m_game_time, m_last_clear_objects_time, fate>>
      /\ loop.op = "deactivate"
      /\ mapblock' = [b \in ObjectBlocks |->
                        IF b \in loop.removed /\ mapblock[b].inMemory
                        THEN [mapblock[b] EXCEPT !.stamp = m_game_time, !.modified = TRUE]
                        ELSE mapblock[b]]
      /\ ActiveBlocks' = ActiveBlocks \ (loop.blocks \ there)
      /\ loop' = [NoLoop EXCEPT !.op = "activate", !.blocks = there]
  BY DEF EndDeactivation, clock
<1>2. /\ loop'.op = "activate" /\ loop'.blocks = there /\ loop'.removed = {} /\ loop'.current = NoBlock
      /\ Watched' = ActiveBlocks'
  BY <1>1, NoLoopIs DEF NoLoop, Watched
<1>3. ASSUME NEW b \in ObjectBlocks
      PROVE  /\ mapblock'[b].inMemory = mapblock[b].inMemory
             /\ mapblock'[b].active = mapblock[b].active
             /\ Lies(mapblock', database, b) = Lies(mapblock, database, b)
             /\ OnDisk(mapblock', b) => OnDisk(mapblock, b)
             /\ Stamp(mapblock', database, b) = IF b \in loop.removed /\ mapblock[b].inMemory
                                                THEN m_game_time ELSE Stamp(mapblock, database, b)
  <2>1. mapblock[b] \in BlockType
    BY DEF ObjectsInv, Memory
  <2>2. CASE b \in loop.removed /\ mapblock[b].inMemory
    <3>1. mapblock'[b] = [mapblock[b] EXCEPT !.stamp = m_game_time, !.modified = TRUE]
      BY <1>1, <2>2
    <3>2. /\ mapblock'[b].active = mapblock[b].active /\ mapblock'[b].stored = mapblock[b].stored
          /\ mapblock'[b].inMemory = mapblock[b].inMemory /\ mapblock'[b].modified
          /\ mapblock'[b].stamp = m_game_time
      BY <2>1, <2>2, <3>1 DEF BlockType
    <3>3. QED
      BY <2>2, <3>2 DEF Lies, OnDisk, Stamp
  <2>3. CASE ~(b \in loop.removed /\ mapblock[b].inMemory)
    BY <1>1, <2>3 DEF Lies, OnDisk, Stamp
  <2>4. QED
    BY <2>2, <2>3
<1>4. TimesTrue'
  <2>1. SUFFICES ASSUME NEW b \in ObjectBlocks
                 PROVE  Past(Stamp(mapblock', database, b)) /\ Past(database[b].stamp)
    BY <1>1 DEF TimesTrue, Past
  <2>2. Past(m_game_time) /\ Past(Stamp(mapblock, database, b)) /\ Past(database[b].stamp)
    BY NowIs DEF Past, ClearInv, TimesTrue
  <2>3. QED
    BY <1>3, <2>2
<1>5. InUse'
  <2>1. SUFFICES ASSUME NEW b \in ObjectBlocks, mapblock'[b].inMemory,
                        b \in Watched' \/ mapblock'[b].stamp = m_game_time
                 PROVE  b \in recent
    BY <1>1 DEF InUse
  <2>2. b \in Watched \/ mapblock[b].stamp = m_game_time
    BY <1>1, <1>2, <1>3, <2>1 DEF Stamp, Watched
  <2>3. QED
    BY <1>3, <2>1, <2>2 DEF ClearInv, InUse
<1>6. WrittenNow'
  BY <1>1, NotNow DEF WrittenNow
<1>7. WatchedOnDisk'
  <2>1. ASSUME NEW b \in ObjectBlocks, ~mapblock'[b].inMemory, b \in Watched', b \notin loop'.blocks
        PROVE  HoldsNone(database', b)
    <3>1. b \in Watched /\ ~mapblock[b].inMemory /\ b \notin loop.blocks
      BY <1>1, <1>2, <1>3, <2>1 DEF Watched
    <3>2. QED
      BY <1>1, <3>1 DEF ClearInv, WatchedOnDisk
  <2>2. QED
    BY <1>2, <2>1 DEF WatchedOnDisk
<1>8. ASSUME NEW o \in Objects, fate'[o] = "cleared" PROVE Emptied(o)'
  <2>1. Emptied(o)
    BY <1>1, <1>8 DEF ClearInv
  <2>2. ASSUME NEW b \in ObjectBlocks, Lies(mapblock', database, b)[o] > 0
        PROVE  /\ Old(Stamp(mapblock', database, b), m_last_clear_objects_time)
               /\ b \in Watched' => b \in loop'.blocks
    <3>1. /\ Old(Stamp(mapblock, database, b), m_last_clear_objects_time)
          /\ b \in Watched => b \in loop.blocks
      BY <1>3, <2>1, <2>2 DEF Emptied
    <3>2. b \notin loop.removed
      BY <3>1 DEF ClearInv, WatchedOnDisk, Watched
    <3>3. QED
      BY <1>1, <1>2, <1>3, <3>1, <3>2 DEF Watched
  <2>3. \A b \in ObjectBlocks : /\ OnDisk(mapblock', b) => OnDisk(mapblock, b)
                                /\ mapblock'[b].active = mapblock[b].active
    BY <1>3
  <2> HIDE DEF there
  <2>4. QED
    BY <1>1, <2>1, <2>2, <2>3 DEF Emptied
<1>9. QED
  BY <1>4, <1>5, <1>6, <1>7, <1>8 DEF ClearInv

(* activateBlock: what it does not clear is of a block that was activated  *)
(* since clearObjects.                                                     *)
LEMMA ActivateBlock_Cleared ==
  ASSUME ObjectsInv, ClearInv, NEW b \in ObjectBlocks, activateBlock(b)
  PROVE  ClearInv'
<1> DEFINE m == mapblock[b]
<1>1. /\ UNCHANGED <<sao, database, ActiveBlocks, m_game_time, m_last_clear_objects_time>>
      /\ loop.op = "activate" /\ b \in loop.blocks /\ recent' = recent \union {b}
      /\ loop' = [loop EXCEPT !.current = b, !.blocks = @ \ {b}]
      /\ \A o \in Objects : fate'[o] = "cleared" => fate[o] = "cleared"
  BY DEF activateBlock, clock
<1>2. PICK gone \in BOOLEAN : \E w \in BOOLEAN :
        /\ mapblock' = [mapblock EXCEPT ![b].stored = IF gone THEN Nothing ELSE @,
                                        ![b].stamp = m_game_time, ![b].modified = @ \/ w]
        /\ Stale(m) => gone
  BY DEF activateBlock
<1>3. PICK w \in BOOLEAN :
        mapblock' = [mapblock EXCEPT ![b].stored = IF gone THEN Nothing ELSE @,
                                     ![b].stamp = m_game_time, ![b].modified = @ \/ w]
  BY <1>2
<1> DEFINE n == [m EXCEPT !.stored = IF gone THEN Nothing ELSE @, !.stamp = m_game_time,
                          !.modified = @ \/ w]
<1>4. m \in BlockType /\ m.inMemory /\ mapblock \in [ObjectBlocks -> BlockType] /\ loop \in LoopType
  BY <1>1 DEF ObjectsInv, Memory, LoopInv
<1>5. /\ n.inMemory /\ n.active = m.active /\ n.stored = (IF gone THEN Nothing ELSE m.stored)
      /\ n.stamp = m_game_time /\ (m.modified => n.modified)
  BY <1>4 DEF BlockType
<1>6. mapblock' = [mapblock EXCEPT ![b] = n]
  BY <1>3, <1>4 DEF BlockType
<1> HIDE DEF n
<1>7. mapblock'[b] = n /\ \A c \in ObjectBlocks : c # b => mapblock'[c] = mapblock[c]
  BY <1>4, <1>6
<1>8. /\ loop'.op = "activate" /\ loop'.blocks = loop.blocks \ {b} /\ loop'.removed = loop.removed
      /\ loop'.current = b /\ Watched' = Watched
  BY <1>1, <1>4 DEF LoopType, Watched
<1>9. TimesTrue'
  <2>1. SUFFICES ASSUME NEW c \in ObjectBlocks
                 PROVE  Past(Stamp(mapblock', database, c)) /\ Past(database[c].stamp)
    BY <1>1 DEF TimesTrue, Past
  <2>2. Past(m_game_time) /\ Past(Stamp(mapblock, database, c)) /\ Past(database[c].stamp)
    BY NowIs DEF Past, ClearInv, TimesTrue
  <2>3. Stamp(mapblock', database, c) = IF c = b THEN m_game_time ELSE Stamp(mapblock, database, c)
    BY <1>5, <1>7 DEF Stamp
  <2>4. QED
    BY <2>2, <2>3
<1>10. InUse'
  BY <1>1, <1>7, <1>8 DEF ClearInv, InUse
<1>11. WrittenNow'
  <2>1. SUFFICES ASSUME NEW c \in ObjectBlocks, database[c].stamp = m_game_time
                 PROVE  /\ ~mapblock'[c].inMemory => HoldsNone(database, c)
                        /\ OnDisk(mapblock', c) =>
                             /\ Stamp(mapblock', database, c) = m_game_time
                             /\ Bare(mapblock', database, c) => HoldsNone(database, c)
                             /\ c \notin loop'.blocks /\ c # loop'.current
    BY <1>1, <1>8 DEF WrittenNow
  <2>2. CASE c = b
    <3>1. ~OnDisk(mapblock, b)
      BY <1>1, <2>1, <2>2 DEF ClearInv, WrittenNow
    <3>2. ~OnDisk(mapblock', b) /\ mapblock'[b].inMemory
      BY <1>5, <1>7, <3>1 DEF OnDisk
    <3>3. QED
      BY <2>2, <3>2
  <2>3. CASE c # b
    BY <1>7, <1>8, <2>1, <2>3 DEF ClearInv, WrittenNow, OnDisk, Stamp, Bare, Lies
  <2>4. QED
    BY <2>2, <2>3
<1>12. WatchedOnDisk'
  <2>1. \A c \in ObjectBlocks : ~mapblock'[c].inMemory /\ c \in Watched' /\ c \notin loop'.blocks
          => HoldsNone(database', c)
    BY <1>1, <1>5, <1>7, <1>8 DEF ClearInv, WatchedOnDisk
  <2>2. loop'.blocks \intersect loop'.removed = {} /\ mapblock'[loop'.current].stamp = m_game_time'
    BY <1>1, <1>5, <1>7, <1>8 DEF ClearInv, WatchedOnDisk
  <2>3. QED
    BY <2>1, <2>2 DEF WatchedOnDisk
<1>13. ASSUME NEW o \in Objects, fate'[o] = "cleared" PROVE Emptied(o)'
  <2>1. Emptied(o)
    BY <1>1, <1>13 DEF ClearInv
  <2>2. ~(Lies(mapblock', database, b)[o] > 0)
    <3>1. Nothing[o] = 0
      BY DEF Nothing
    <3>2. Lies(mapblock, database, b)[o] > 0 => gone
      BY <1>2, <1>4, <2>1 DEF Emptied, Stamp, Old, Stale
    <3>3. QED
      BY <1>4, <1>5, <1>7, <3>1, <3>2 DEF Lies
  <2>3. ASSUME NEW c \in ObjectBlocks, Lies(mapblock', database, c)[o] > 0
        PROVE  /\ Old(Stamp(mapblock', database, c), m_last_clear_objects_time)
               /\ c \in Watched' => c \in loop'.blocks
    <3>1. c # b
      BY <2>2, <2>3
    <3>2. Lies(mapblock, database, c)[o] > 0 /\ Stamp(mapblock', database, c) = Stamp(mapblock, database, c)
      BY <1>7, <2>3, <3>1 DEF Lies, Stamp
    <3>3. QED
      BY <1>8, <2>1, <3>1, <3>2 DEF Emptied
  <2>4. \A c \in ObjectBlocks : /\ OnDisk(mapblock', c) => OnDisk(mapblock, c)
                                /\ mapblock'[c].active = mapblock[c].active
    BY <1>4, <1>5, <1>7 DEF OnDisk
  <2>5. QED
    BY <1>1, <2>1, <2>3, <2>4 DEF Emptied
<1>14. QED
  BY <1>9, <1>10, <1>11, <1>12, <1>13 DEF ClearInv

(* A block as it is on disk when it was written if it had to be.           *)
Written(b, d) == d = IF mapblock[b].modified THEN Serialized(mapblock[b]) ELSE database[b]

LEMMA WrittenCleared ==
  ASSUME ObjectsInv, ClearInv, NEW b \in ObjectBlocks, NEW d, Written(b, d)
  PROVE  /\ Past(d.stamp)
         /\ d.stamp = m_game_time =>
              /\ ~mapblock[b].inMemory => \A o \in Objects : d.objects[o] = 0
              /\ Stamp(mapblock, database, b) = m_game_time
              /\ Bare(mapblock, database, b) => \A o \in Objects : d.objects[o] = 0
         /\ \A o \in Objects : fate[o] = "cleared" /\ d.objects[o] > 0 =>
              Old(d.stamp, m_last_clear_objects_time)
<1>1. mapblock[b] \in BlockType /\ (~mapblock[b].inMemory => mapblock[b] = Unloaded)
  BY DEF ObjectsInv, Memory
<1>2. CASE mapblock[b].modified
  <2>1. /\ mapblock[b].inMemory /\ Lies(mapblock, database, b) = mapblock[b].stored
        /\ Stamp(mapblock, database, b) = mapblock[b].stamp /\ mapblock[b].stored \in Counts
    BY <1>1, <1>2, UnloadedIs DEF Lies, Stamp, BlockType
  <2>2. d = Serialized(mapblock[b])
    BY <1>2 DEF Written
  <2>3. d.stamp = mapblock[b].stamp
    BY <1>1, <2>2, SerializedIs
  <2>4. \A o \in Objects : (\A i \in ObjectIds : mapblock[b].active[i] # o)
                             => d.objects[o] = mapblock[b].stored[o]
    BY <1>1, <2>2, SerializedIs
  <2>5. Past(d.stamp)
    BY <2>1, <2>3 DEF ClearInv, TimesTrue
  <2>6. Bare(mapblock, database, b) => \A o \in Objects : d.objects[o] = 0
    BY <2>1, <2>4, ActiveObjectsAssumption DEF Bare
  <2>7. ASSUME NEW o \in Objects, fate[o] = "cleared", d.objects[o] > 0
        PROVE  Old(d.stamp, m_last_clear_objects_time)
    <3>1. Emptied(o)
      BY <2>7 DEF ClearInv
    <3>2. d.objects[o] = mapblock[b].stored[o]
      BY <2>4, <3>1 DEF Emptied
    <3>3. Lies(mapblock, database, b)[o] > 0
      BY <2>1, <2>7, <3>2
    <3>4. QED
      BY <2>1, <2>3, <3>1, <3>3 DEF Emptied
  <2>8. QED
    BY <2>1, <2>3, <2>5, <2>6, <2>7
<1>3. CASE ~mapblock[b].modified
  <2>1. d = database[b] /\ OnDisk(mapblock, b)
    BY <1>3 DEF Written, OnDisk
  <2>2. QED
    BY <2>1 DEF ClearInv, TimesTrue, WrittenNow, HoldsNone, Emptied
<1>4. QED
  BY <1>2, <1>3

LEMMA Save_Cleared ==
  ASSUME ObjectsInv, ClearInv, saveMap
  PROVE  ClearInv'
<1>1. /\ UNCHANGED <<sao, ActiveBlocks, m_game_time, m_last_clear_objects_time, recent, loop, fate>>
      /\ loop = NoLoop
      /\ database' = [b \in ObjectBlocks |->
                        IF mapblock[b].modified THEN Serialized(mapblock[b]) ELSE database[b]]
      /\ mapblock' = [b \in ObjectBlocks |-> [mapblock[b] EXCEPT !.modified = FALSE]]
  BY DEF saveMap, Untouched, Quiet, clock
<1>2. Watched' = Watched /\ loop.op = "none" /\ loop.blocks = {} /\ loop.current = NoBlock
      /\ NoBlock \notin ObjectBlocks /\ loop.removed = {}
  BY <1>1, NoLoopIs, ActiveObjectsAssumption DEF Watched
<1>3. ASSUME NEW b \in ObjectBlocks
      PROVE  /\ mapblock'[b].inMemory = mapblock[b].inMemory
             /\ mapblock'[b].active = mapblock[b].active /\ mapblock'[b].stamp = mapblock[b].stamp
             /\ Lies(mapblock', database', b) = Lies(mapblock, database, b)
             /\ Stamp(mapblock', database', b) = Stamp(mapblock, database, b)
             /\ Written(b, database'[b])
             /\ ~mapblock[b].inMemory => database'[b] = database[b]
  <2>1. mapblock[b] \in BlockType /\ (~mapblock[b].inMemory => mapblock[b] = Unloaded)
    BY DEF ObjectsInv, Memory
  <2>2. mapblock'[b] = [mapblock[b] EXCEPT !.modified = FALSE]
    BY <1>1
  <2>3. /\ mapblock'[b].active = mapblock[b].active /\ mapblock'[b].stored = mapblock[b].stored
        /\ mapblock'[b].inMemory = mapblock[b].inMemory /\ mapblock'[b].stamp = mapblock[b].stamp
    BY <2>1, <2>2 DEF BlockType
  <2>4. Written(b, database'[b]) /\ (~mapblock[b].inMemory => database'[b] = database[b])
    BY <1>1, <2>1, UnloadedIs DEF Written
  <2>5. QED
    BY <2>3, <2>4 DEF Lies, Stamp
<1>4. \A b \in ObjectBlocks : Written(b, database'[b])
  BY <1>3
<1>5. TimesTrue'
  <2>1. SUFFICES ASSUME NEW b \in ObjectBlocks
                 PROVE  Past(Stamp(mapblock', database', b)) /\ Past(database'[b].stamp)
    BY <1>1 DEF TimesTrue, Past
  <2>2. Past(database'[b].stamp)
    BY <1>4, WrittenCleared
  <2>3. Past(Stamp(mapblock, database, b))
    BY DEF ClearInv, TimesTrue
  <2>4. QED
    BY <1>3, <2>2, <2>3
<1>6. InUse'
  BY <1>1, <1>2, <1>3 DEF ClearInv, InUse
<1>7. WrittenNow'
  <2>1. SUFFICES ASSUME NEW b \in ObjectBlocks, database'[b].stamp = m_game_time
                 PROVE  /\ ~mapblock'[b].inMemory => HoldsNone(database', b)
                        /\ Stamp(mapblock', database', b) = m_game_time
                        /\ Bare(mapblock', database', b) => HoldsNone(database', b)
    BY <1>1, <1>2 DEF WrittenNow
  <2>2. /\ ~mapblock[b].inMemory => \A o \in Objects : database'[b].objects[o] = 0
        /\ Stamp(mapblock, database, b) = m_game_time
        /\ Bare(mapblock, database, b) => \A o \in Objects : database'[b].objects[o] = 0
    BY <1>4, <2>1, WrittenCleared
  <2>3. Bare(mapblock', database', b) => Bare(mapblock, database, b)
    BY <1>3 DEF Bare
  <2>4. QED
    BY <1>3, <2>2, <2>3 DEF HoldsNone
<1>8. WatchedOnDisk'
  <2>1. ASSUME NEW b \in ObjectBlocks, ~mapblock'[b].inMemory, b \in Watched', b \notin loop'.blocks
        PROVE  HoldsNone(database', b)
    <3>1. HoldsNone(database, b) /\ database'[b] = database[b]
      BY <1>1, <1>2, <1>3, <2>1 DEF ClearInv, WatchedOnDisk
    <3>2. QED
      BY <3>1 DEF HoldsNone
  <2>2. QED
    BY <1>1, <1>2, <2>1 DEF WatchedOnDisk
<1>9. ASSUME NEW o \in Objects, fate'[o] = "cleared" PROVE Emptied(o)'
  <2>1. Emptied(o) /\ fate[o] = "cleared"
    BY <1>1, <1>9 DEF ClearInv
  <2>2. ASSUME NEW b \in ObjectBlocks, database'[b].objects[o] > 0
        PROVE  Old(database'[b].stamp, m_last_clear_objects_time)
    BY <1>4, <2>1, <2>2, WrittenCleared
  <2>3. \A b \in ObjectBlocks : Lies(mapblock', database', b)[o] > 0 =>
          /\ Old(Stamp(mapblock', database', b), m_last_clear_objects_time)
          /\ b \in Watched' => b \in loop.blocks
    BY <1>2, <1>3, <2>1 DEF Emptied
  <2>4. \A b \in ObjectBlocks, i \in ObjectIds : mapblock'[b].active[i] # o
    BY <1>3, <2>1 DEF Emptied
  <2>5. \A i \in ObjectIds : sao'[i].who = o => sao'[i].removal
    BY <1>1, <2>1 DEF Emptied
  <2>6. loop' = loop /\ m_last_clear_objects_time' = m_last_clear_objects_time
    BY <1>1
  <2>7. QED
    BY <2>2, <2>3, <2>4, <2>5, <2>6 DEF Emptied
<1>10. QED
  BY <1>5, <1>6, <1>7, <1>8, <1>9 DEF ClearInv

(* A block that leaves the memory, and is d on disk.                       *)
LEMMA Dropped_Cleared ==
  ASSUME ObjectsInv, ClearInv, Quiet, NEW b \in ObjectBlocks, NEW d,
         mapblock' = [mapblock EXCEPT ![b] = Unloaded], database' = [database EXCEPT ![b] = d],
         UNCHANGED <<sao, ActiveBlocks, m_game_time, m_last_clear_objects_time, loop>>,
         recent \ {b} \subseteq recent',
         \A o \in Objects : fate'[o] = "cleared" => fate[o] = "cleared",
         Past(d.stamp), d.stamp # m_game_time,
         \A o \in Objects : d.objects[o] > 0 =>
            b \notin Watched /\ (fate[o] = "cleared" => Old(d.stamp, m_last_clear_objects_time)),
         \A o \in Objects : d.objects[o] \in Nat
  PROVE  ClearInv'
<1>1. /\ mapblock'[b] = Unloaded /\ database'[b] = d
      /\ \A c \in ObjectBlocks : c # b => mapblock'[c] = mapblock[c] /\ database'[c] = database[c]
  BY DEF ObjectsInv, Memory, Disk
<1>2. Watched' = Watched /\ loop = NoLoop /\ loop.op = "none" /\ loop.blocks = {} /\ loop.removed = {}
      /\ loop.current = NoBlock /\ NoBlock \notin ObjectBlocks
  BY NoLoopIs, ActiveObjectsAssumption DEF Watched, Quiet
<1>3. /\ ~mapblock'[b].inMemory /\ (\A i \in ObjectIds : mapblock'[b].active[i] = NoObject)
      /\ Lies(mapblock', database', b) = d.objects /\ Stamp(mapblock', database', b) = d.stamp
  BY <1>1, UnloadedIs DEF Lies, Stamp
<1>4. \A c \in ObjectBlocks : c # b =>
        /\ Lies(mapblock', database', c) = Lies(mapblock, database, c)
        /\ Stamp(mapblock', database', c) = Stamp(mapblock, database, c)
        /\ OnDisk(mapblock', c) <=> OnDisk(mapblock, c)
        /\ mapblock'[c] = mapblock[c] /\ database'[c] = database[c]
  BY <1>1 DEF Lies, Stamp, OnDisk
<1>5. TimesTrue'
  <2>1. SUFFICES ASSUME NEW c \in ObjectBlocks
                 PROVE  Past(Stamp(mapblock', database', c)) /\ Past(database'[c].stamp)
    BY DEF TimesTrue, Past
  <2>2. QED
    BY <1>1, <1>3, <1>4 DEF ClearInv, TimesTrue
<1>6. InUse'
  BY <1>2, <1>3, <1>4 DEF ClearInv, InUse
<1>7. WrittenNow'
  <2>1. SUFFICES ASSUME NEW c \in ObjectBlocks, database'[c].stamp = m_game_time
                 PROVE  /\ loop.op # "deactivate"
                        /\ ~mapblock'[c].inMemory => HoldsNone(database', c)
                        /\ OnDisk(mapblock', c) =>
                             /\ Stamp(mapblock', database', c) = m_game_time
                             /\ Bare(mapblock', database', c) => HoldsNone(database', c)
                             /\ c \notin loop.blocks /\ c # loop.current
    BY DEF WrittenNow
  <2>2. c # b
    BY <1>1, <2>1
  <2>3. /\ loop.op # "deactivate"
        /\ ~mapblock[c].inMemory => HoldsNone(database, c)
        /\ OnDisk(mapblock, c) =>
             /\ Stamp(mapblock, database, c) = m_game_time
             /\ Bare(mapblock, database, c) => HoldsNone(database, c)
             /\ c \notin loop.blocks /\ c # loop.current
    BY <1>4, <2>1, <2>2 DEF ClearInv, WrittenNow
  <2>4. /\ HoldsNone(database, c) => HoldsNone(database', c)
        /\ Bare(mapblock', database', c) => Bare(mapblock, database, c)
    BY <1>4, <2>2 DEF HoldsNone, Bare
  <2>5. QED
    BY <1>4, <2>2, <2>3, <2>4
<1>8. WatchedOnDisk'
  <2>1. ASSUME NEW c \in ObjectBlocks, ~mapblock'[c].inMemory, c \in Watched'
        PROVE  HoldsNone(database', c)
    <3>1. CASE c = b
      <4>1. \A o \in Objects : d.objects[o] \in Nat /\ ~(d.objects[o] > 0)
        BY <1>2, <2>1, <3>1
      <4>2. \A o \in Objects : d.objects[o] = 0
        BY <4>1
      <4>3. QED
        BY <1>1, <3>1, <4>2 DEF HoldsNone
    <3>2. CASE c # b
      BY <1>2, <1>4, <2>1, <3>2 DEF ClearInv, WatchedOnDisk, HoldsNone
    <3>3. QED
      BY <3>1, <3>2
  <2>2. QED
    BY <1>2, <2>1 DEF WatchedOnDisk
<1>9. ASSUME NEW o \in Objects, fate'[o] = "cleared" PROVE Emptied(o)'
  <2>1. Emptied(o) /\ fate[o] = "cleared"
    BY <1>9 DEF ClearInv
  <2>2. ASSUME NEW c \in ObjectBlocks, Lies(mapblock', database', c)[o] > 0
        PROVE  /\ Old(Stamp(mapblock', database', c), m_last_clear_objects_time)
               /\ c \in Watched' => c \in loop.blocks
    <3>1. CASE c = b
      BY <1>2, <1>3, <2>1, <2>2, <3>1
    <3>2. CASE c # b
      BY <1>2, <1>4, <2>1, <2>2, <3>2 DEF Emptied
    <3>3. QED
      BY <3>1, <3>2
  <2>3. ASSUME NEW c \in ObjectBlocks, OnDisk(mapblock', c), database'[c].objects[o] > 0
        PROVE  Old(database'[c].stamp, m_last_clear_objects_time)
    <3>1. CASE c = b
      BY <1>1, <2>1, <2>3, <3>1
    <3>2. CASE c # b
      BY <1>4, <2>1, <2>3, <3>2 DEF Emptied
    <3>3. QED
      BY <3>1, <3>2
  <2>4. \A c \in ObjectBlocks, i \in ObjectIds : mapblock'[c].active[i] # o
    BY <1>3, <1>4, <2>1, ActiveObjectsAssumption DEF Emptied
  <2>5. QED
    BY <2>1, <2>2, <2>3, <2>4 DEF Emptied
<1>10. QED
  BY <1>5, <1>6, <1>7, <1>8, <1>9 DEF ClearInv

LEMMA Unload_Cleared ==
  ASSUME ObjectsInv, ClearInv, NEW b \in ObjectBlocks, timerUnload(b) \/ deleteBlock(b)
  PROVE  ClearInv'
<1>1. /\ Quiet /\ mapblock' = [mapblock EXCEPT ![b] = Unloaded]
      /\ UNCHANGED <<sao, ActiveBlocks, m_game_time, m_last_clear_objects_time, loop>>
      /\ recent \ {b} \subseteq recent'
      /\ \A o \in Objects : fate'[o] = "cleared" => fate[o] = "cleared"
  BY DEF timerUnload, deleteBlock, Untouched, clock
<1>2. CASE timerUnload(b)
  <2> DEFINE d == IF mapblock[b].modified THEN Serialized(mapblock[b]) ELSE database[b]
  <2>1. database' = [database EXCEPT ![b] = d] /\ mapblock[b].inMemory /\ b \notin recent
    BY <1>2 DEF timerUnload
  <2>2. b \notin Watched /\ mapblock[b].stamp # m_game_time
    BY <2>1 DEF ClearInv, InUse
  <2>3. Written(b, d)
    BY DEF Written
  <2>4. Stamp(mapblock, database, b) = mapblock[b].stamp
    BY <2>1 DEF Stamp
  <2>5. d \in DiskType
    BY WrittenIs DEF ObjectsInv
  <2> HIDE DEF d
  <2>6. Past(d.stamp) /\ d.stamp # m_game_time
    BY <2>2, <2>3, <2>4, WrittenCleared
  <2>7. \A o \in Objects : d.objects[o] > 0 =>
            b \notin Watched /\ (fate[o] = "cleared" => Old(d.stamp, m_last_clear_objects_time))
    BY <2>2, <2>3, WrittenCleared
  <2>8. \A o \in Objects : d.objects[o] \in Nat
    BY <2>5 DEF DiskType, Counts
  <2>9. QED
    BY <1>1, <2>1, <2>6, <2>7, <2>8, Dropped_Cleared
<1>3. CASE deleteBlock(b)
  <2>1. database' = [database EXCEPT ![b] = Missing]
    BY <1>3 DEF deleteBlock
  <2>2. Past(Missing.stamp) /\ Missing.stamp # m_game_time
    BY NowIs DEF Past, Missing
  <2>3. \A o \in Objects : Missing.objects[o] = 0
    BY UnloadedIs
  <2>4. \A o \in Objects : Missing.objects[o] \in Nat /\ ~(Missing.objects[o] > 0)
    BY <2>3
  <2> DEFINE d == Missing
  <2>5. /\ database' = [database EXCEPT ![b] = d] /\ Past(d.stamp) /\ d.stamp # m_game_time
        /\ \A o \in Objects : d.objects[o] \in Nat /\ ~(d.objects[o] > 0)
    BY <2>1, <2>2, <2>4
  <2> HIDE DEF d
  <2>6. QED
    BY <1>1, <2>5, Dropped_Cleared
<1>4. QED
  BY <1>2, <1>3

(* clearObjects: what is in memory is cleared, and what is not has a       *)
(* timestamp of before, or nothing.                                        *)
LEMMA Clear_Cleared ==
  ASSUME ObjectsInv, ClearInv, NEW full \in BOOLEAN, clearObjects(full)
  PROVE  ClearInv'
<1>1. /\ UNCHANGED <<ActiveBlocks, m_game_time, recent, loop>> /\ loop = NoLoop
      /\ m_last_clear_objects_time' = m_game_time
      /\ mapblock' = [b \in ObjectBlocks |->
                        LET m == mapblock[b]
                        IN  IF m.stored = Nothing /\ m.active = NoneIn THEN m
                            ELSE [m EXCEPT !.stored = Nothing, !.active = NoneIn, !.modified = TRUE]]
      /\ database' = [b \in ObjectBlocks |->
                        IF full /\ ~mapblock[b].inMemory
                        THEN [database[b] EXCEPT !.objects = Nothing] ELSE database[b]]
  BY DEF clearObjects, Quiet
<1>2. Watched' = Watched /\ loop.op = "none" /\ loop.blocks = {} /\ loop.removed = {}
      /\ loop.current = NoBlock /\ NoBlock \notin ObjectBlocks /\ NoObject \notin Objects
  BY <1>1, NoLoopIs, ActiveObjectsAssumption DEF Watched
<1>3. /\ \A o \in Objects : Nothing[o] = 0
      /\ \A i \in ObjectIds : NoneIn[i] = NoObject
      /\ Unloaded.stored = Nothing /\ Unloaded.active = NoneIn
  BY DEF Nothing, NoneIn, Unloaded
<1>4. ASSUME NEW b \in ObjectBlocks
      PROVE  /\ mapblock'[b].inMemory = mapblock[b].inMemory /\ mapblock'[b].stamp = mapblock[b].stamp
             /\ mapblock'[b].stored = Nothing /\ mapblock'[b].active = NoneIn
             /\ database'[b].stamp = database[b].stamp
             /\ \A o \in Objects : database'[b].objects[o] = 0
                                   \/ database'[b].objects[o] = database[b].objects[o]
             /\ OnDisk(mapblock', b) => /\ OnDisk(mapblock, b)
                                        /\ mapblock[b].inMemory => Bare(mapblock, database, b)
  <2>1. mapblock[b] \in BlockType /\ (~mapblock[b].inMemory => mapblock[b] = Unloaded)
        /\ database[b] \in DiskType
    BY DEF ObjectsInv, Memory, Disk
  <2>2. /\ database'[b].stamp = database[b].stamp
        /\ \A o \in Objects : database'[b].objects[o] = 0
                              \/ database'[b].objects[o] = database[b].objects[o]
    BY <1>1, <1>3, <2>1 DEF DiskType
  <2>3. CASE mapblock[b].stored = Nothing /\ mapblock[b].active = NoneIn
    <3>1. mapblock'[b] = mapblock[b]
      BY <1>1, <2>3
    <3>2. mapblock[b].inMemory => Bare(mapblock, database, b)
      BY <1>3, <2>3 DEF Bare, Lies
    <3>3. QED
      BY <2>2, <2>3, <3>1, <3>2 DEF OnDisk
  <2>4. CASE ~(mapblock[b].stored = Nothing /\ mapblock[b].active = NoneIn)
    <3>1. mapblock[b].inMemory
      BY <1>3, <2>1, <2>4
    <3>2. mapblock'[b] = [mapblock[b] EXCEPT !.stored = Nothing, !.active = NoneIn, !.modified = TRUE]
      BY <1>1, <2>4
    <3>3. /\ mapblock'[b].inMemory = mapblock[b].inMemory /\ mapblock'[b].stamp = mapblock[b].stamp
          /\ mapblock'[b].stored = Nothing /\ mapblock'[b].active = NoneIn /\ mapblock'[b].modified
      BY <2>1, <3>2 DEF BlockType
    <3>4. QED
      BY <2>2, <3>1, <3>3 DEF OnDisk
  <2>5. QED
    BY <2>3, <2>4
<1>5. \A b \in ObjectBlocks : Stamp(mapblock', database', b) = Stamp(mapblock, database, b)
  BY <1>4 DEF Stamp
<1>6. \A b \in ObjectBlocks : HoldsNone(database, b) => HoldsNone(database', b)
  BY <1>4 DEF HoldsNone
<1>7. TimesTrue'
  <2>1. SUFFICES ASSUME NEW b \in ObjectBlocks
                 PROVE  Past(Stamp(mapblock', database', b)) /\ Past(database'[b].stamp)
    BY <1>1 DEF TimesTrue, Past
  <2>2. Past(Stamp(mapblock, database, b)) /\ Past(database[b].stamp)
    BY DEF ClearInv, TimesTrue
  <2>3. QED
    BY <1>4, <1>5, <2>2
<1>8. InUse'
  BY <1>1, <1>2, <1>4 DEF ClearInv, InUse
<1>9. WrittenNow'
  <2>1. SUFFICES ASSUME NEW b \in ObjectBlocks, database'[b].stamp = m_game_time
                 PROVE  /\ ~mapblock'[b].inMemory => HoldsNone(database', b)
                        /\ OnDisk(mapblock', b) =>
                             /\ Stamp(mapblock', database', b) = m_game_time
                             /\ HoldsNone(database', b)
    BY <1>1, <1>2 DEF WrittenNow
  <2>2. /\ ~mapblock[b].inMemory => HoldsNone(database, b)
        /\ OnDisk(mapblock, b) =>
             /\ Stamp(mapblock, database, b) = m_game_time
             /\ Bare(mapblock, database, b) => HoldsNone(database, b)
    BY <1>4, <2>1 DEF ClearInv, WrittenNow
  <2>3. QED
    BY <1>4, <1>5, <1>6, <2>2
<1>10. WatchedOnDisk'
  <2>1. ASSUME NEW b \in ObjectBlocks, ~mapblock'[b].inMemory, b \in Watched'
        PROVE  HoldsNone(database', b)
    BY <1>2, <1>4, <1>6, <2>1 DEF ClearInv, WatchedOnDisk
  <2>2. QED
    BY <1>1, <1>2, <2>1 DEF WatchedOnDisk
<1>11. ASSUME NEW b \in ObjectBlocks, NEW o \in Objects, OnDisk(mapblock', b),
              database'[b].objects[o] > 0
       PROVE  Old(database'[b].stamp, m_game_time)
  <2>1. ~HoldsNone(database, b)
    BY <1>4, <1>11 DEF HoldsNone
  <2>2. database[b].stamp # m_game_time
    BY <1>4, <1>11, <2>1 DEF ClearInv, WrittenNow
  <2>3. Past(database[b].stamp)
    BY DEF ClearInv, TimesTrue
  <2>4. Old(database[b].stamp, m_game_time)
    BY <2>2, <2>3, NowIs DEF Past, Old
  <2>5. QED
    BY <1>4, <2>4
<1>12. ASSUME NEW o \in Objects PROVE Emptied(o)'
  <2>1. ASSUME NEW i \in ObjectIds, sao'[i].who = o PROVE sao'[i].removal
    <3>1. sao[i] \in SaoType /\ NoSao.who = NoObject
      BY InstanceIs DEF NoSao
    <3>2. sao'[i] = IF sao[i].known
                    THEN [sao[i] EXCEPT !.removal = TRUE,
                            !.static = IF @ # NoBlock /\ mapblock[@].inMemory THEN NoBlock ELSE @]
                    ELSE NoSao
      BY DEF clearObjects
    <3>3. QED
      BY <1>2, <2>1, <3>1, <3>2 DEF SaoType
  <2>2. \A b \in ObjectBlocks, i \in ObjectIds : mapblock'[b].active[i] # o
    BY <1>2, <1>3, <1>4
  <2>3. ASSUME NEW b \in ObjectBlocks, Lies(mapblock', database', b)[o] > 0
        PROVE  /\ Old(Stamp(mapblock', database', b), m_game_time)
               /\ b \notin Watched
    <3>1. ~mapblock'[b].inMemory /\ database'[b].objects[o] > 0
      BY <1>3, <1>4, <2>3 DEF Lies
    <3>2. Old(database'[b].stamp, m_game_time) /\ Stamp(mapblock', database', b) = database'[b].stamp
      BY <1>11, <3>1 DEF OnDisk, Stamp
    <3>3. ~HoldsNone(database', b)
      BY <3>1 DEF HoldsNone
    <3>4. QED
      BY <1>1, <1>2, <1>10, <3>1, <3>2, <3>3 DEF WatchedOnDisk
  <2>4. QED
    BY <1>1, <1>2, <1>11, <2>1, <2>2, <2>3 DEF Emptied
<1>13. QED
  BY <1>7, <1>8, <1>9, <1>10, <1>12 DEF ClearInv

LEMMA Init_Cleared ==
  ASSUME ActiveObjectsInit
  PROVE  ClearedInv
<1>1. /\ mapblock = [b \in ObjectBlocks |-> Unloaded] /\ ActiveBlocks = {} /\ m_game_time = 0
      /\ loop = NoLoop /\ fate = [o \in Objects |-> "unborn"]
  BY DEF ActiveObjectsInit
<1>2. ASSUME NEW b \in ObjectBlocks
      PROVE  /\ mapblock[b] = Unloaded
             /\ database[b].stamp = 0 \/ database[b].stamp = BLOCK_TIMESTAMP_UNDEFINED
             /\ HoldsNone(database, b)
  <2>1. PICK old \in SUBSET ObjectBlocks :
          database = [c \in ObjectBlocks |->
                        IF c \in old THEN [Missing EXCEPT !.exists = TRUE, !.stamp = 0] ELSE Missing]
    BY DEF ActiveObjectsInit
  <2>2. /\ Missing.stamp = BLOCK_TIMESTAMP_UNDEFINED
        /\ [Missing EXCEPT !.exists = TRUE, !.stamp = 0].stamp = 0
        /\ Missing.objects = Nothing
        /\ [Missing EXCEPT !.exists = TRUE, !.stamp = 0].objects = Nothing
    BY DEF Missing
  <2>3. database[b].objects = Nothing
        /\ (database[b].stamp = 0 \/ database[b].stamp = BLOCK_TIMESTAMP_UNDEFINED)
    BY <2>1, <2>2
  <2>4. QED
    BY <1>1, <2>3 DEF HoldsNone, Nothing
<1>3. ~Unloaded.inMemory /\ NoLoop.op = "none" /\ NoLoop.removed = {} /\ NoLoop.blocks = {}
      /\ NoLoop.current = NoBlock /\ NoBlock \notin ObjectBlocks
  BY UnloadedIs, NoLoopIs, ActiveObjectsAssumption
<1>4. TimesTrue /\ InUse
  BY <1>1, <1>2, <1>3 DEF TimesTrue, Past, InUse, Stamp
<1>5. WrittenNow /\ WatchedOnDisk
  BY <1>1, <1>2, <1>3 DEF WrittenNow, WatchedOnDisk, Watched, Stamp
<1>6. \A o \in Objects : fate[o] # "cleared"
  BY <1>1
<1>7. QED
  BY <1>4, <1>5, <1>6 DEF ClearedInv, ClearInv

LEMMA NobodyClears ==
  ASSUME ObjectsInv, [ActiveObjectsNext]_aoVars, "clear" \notin scene, NEW o \in Objects,
         fate[o] # "cleared"
  PROVE  fate'[o] # "cleared"
<1>1. fate \in [Objects -> Fates]
  BY DEF ObjectsInv
<1>2. CASE UNCHANGED fate
  BY <1>2
<1>3. ASSUME NEW x \in Objects, NEW b \in ObjectBlocks, addActiveObject(x, b) \/ activateObject(b, x)
      PROVE  fate'[o] # "cleared"
  BY <1>1, <1>3 DEF addActiveObject, activateObject
<1>4. ASSUME NEW i \in ObjectIds, markForRemoval(i) PROVE fate'[o] # "cleared"
  BY <1>1, <1>4 DEF markForRemoval
<1>5. ASSUME NEW i \in ObjectIds, Deactivate(i) PROVE fate'[o] # "cleared"
  <2>1. PICK c \in SpotBlocks : \E c2 \in SpotBlocks : \E w \in BOOLEAN :
           Deactivated(i, sao[i], c, c2, w)
    BY <1>5, DeactivateIs
  <2>2. QED
    BY <1>1, <2>1 DEF Deactivated
<1>6. ASSUME NEW b \in ObjectBlocks, activateBlock(b) \/ timerUnload(b) \/ deleteBlock(b)
      PROVE  fate'[o] # "cleared"
  BY <1>6 DEF activateBlock, timerUnload, deleteBlock
<1>7. QED
  BY <1>2, <1>3, <1>4, <1>5, <1>6 DEF ActiveObjectsNext, aoVars, MoveObject, KnownByClients, StaysActive,
     ResaveStatic, removeRemovedObject, ManageActiveBlocks, BlockActivated, loadFromDisk, finishGenOf,
     clearObjects, EndDeactivation, EndActivation, BeginRemoval, EndRemoval, saveMap, shutdown, restart

(* Every step but a stop of the server keeps ClearInv.                     *)
LEMMA Next_ClearInv ==
  ASSUME ObjectsInv, ObjectsInv', ClearInv, "restart" \notin scene, ActiveObjectsNext
  PROVE  ClearInv'
<1>1. ~loop.force
  BY DEF ObjectsInv, LoopInv
<1>2. ASSUME NEW o \in Objects, NEW b \in ObjectBlocks, addActiveObject(o, b) \/ activateObject(b, o)
      PROVE  ClearInv'
  BY <1>2, Add_Cleared, ActivateObject_Cleared
<1>3. ASSUME NEW i \in ObjectIds,
             \/ \E b \in ObjectBlocks : MoveObject(i, b)
             \/ KnownByClients(i) \/ markForRemoval(i)
      PROVE  ClearInv'
  BY <1>3, Others_Cleared
<1>4. ASSUME NEW i \in ObjectIds,
             \/ StaysActive(i) \/ ResaveStatic(i) \/ Deactivate(i)
             \/ removeRemovedObject(i)
      PROVE  ClearInv'
  BY <1>1, <1>4, Others_Cleared, Resave_Cleared, Deactivate_Cleared, Remove_Cleared
<1>5. ASSUME NEW newlist \in SUBSET ObjectBlocks, ManageActiveBlocks(newlist)
      PROVE  ClearInv'
  BY <1>5, Manage_Cleared
<1>6. ASSUME NEW b \in ObjectBlocks,
             \/ activateBlock(b) \/ BlockActivated(b)
             \/ loadFromDisk(b) \/ finishGenOf(b) \/ timerUnload(b) \/ deleteBlock(b)
      PROVE  ClearInv'
  BY <1>6, ActivateBlock_Cleared, Others_Cleared, Load_Cleared, Unload_Cleared
<1>7. ASSUME NEW full \in BOOLEAN, clearObjects(full)
      PROVE  ClearInv'
  BY <1>7, Clear_Cleared
<1>8. ASSUME EndDeactivation \/ EndActivation \/ BeginRemoval \/ EndRemoval \/ saveMap
      PROVE  ClearInv'
  BY <1>8, EndDeactivation_Cleared, Others_Cleared, Save_Cleared
<1>9. ~shutdown /\ ~restart
  BY <1>1 DEF shutdown, restart
<1>10. QED
  BY <1>2, <1>3, <1>4, <1>5, <1>6, <1>7, <1>8, <1>9 DEF ActiveObjectsNext

LEMMA SceneStays ==
  ASSUME [ActiveObjectsNext]_aoVars
  PROVE  scene' = scene
<1>1. CASE UNCHANGED aoVars
  BY <1>1 DEF aoVars, clock
<1>2. ASSUME NEW newlist \in SUBSET ObjectBlocks, ManageActiveBlocks(newlist) PROVE scene' = scene
  BY <1>2 DEF ManageActiveBlocks
<1>3. ASSUME NEW full \in BOOLEAN, clearObjects(full) PROVE scene' = scene
  BY <1>3 DEF clearObjects
<1>4. ASSUME NEW o \in Objects, NEW b \in ObjectBlocks,
             addActiveObject(o, b) \/ activateObject(b, o)
      PROVE  scene' = scene
  BY <1>4 DEF addActiveObject, activateObject, clock
<1>5. ASSUME NEW i \in ObjectIds, NEW b \in ObjectBlocks, MoveObject(i, b) PROVE scene' = scene
  BY <1>5 DEF MoveObject, Outside, clock
<1>6. ASSUME NEW i \in ObjectIds, KnownByClients(i) \/ markForRemoval(i) \/ StaysActive(i)
      PROVE  scene' = scene
  BY <1>6, Zenon DEF KnownByClients, markForRemoval, Outside, StaysActive, clock
<1>7. ASSUME NEW i \in ObjectIds, ResaveStatic(i) \/ Deactivate(i) \/ removeRemovedObject(i)
      PROVE  scene' = scene
  BY <1>7, Zenon DEF ResaveStatic, Deactivate, removeRemovedObject, clock
<1>8. ASSUME NEW b \in ObjectBlocks,
             \/ activateBlock(b) \/ BlockActivated(b) \/ loadFromDisk(b)
             \/ finishGenOf(b) \/ timerUnload(b) \/ deleteBlock(b)
      PROVE  scene' = scene
  BY <1>8 DEF activateBlock, BlockActivated, loadFromDisk, finishGenOf, timerUnload, deleteBlock,
     Untouched, clock
<1>9. ASSUME \/ EndDeactivation \/ EndActivation \/ BeginRemoval \/ EndRemoval
             \/ saveMap \/ shutdown \/ restart
      PROVE  scene' = scene
  BY <1>9 DEF EndDeactivation, EndActivation, BeginRemoval, EndRemoval, saveMap, shutdown, restart,
     Untouched, clock
<1>10. QED
  BY <1>1, <1>2, <1>3, <1>4, <1>5, <1>6, <1>7, <1>8, <1>9 DEF ActiveObjectsNext

LEMMA Next_Cleared ==
  ASSUME ObjectsInv, ObjectsInv', ClearedInv, [ActiveObjectsNext]_aoVars
  PROVE  ClearedInv'
<1>1. scene' = scene
  BY SceneStays
<1>2. CASE UNCHANGED aoVars
  BY <1>2 DEF aoVars, clock, ClearedInv, ClearInv, TimesTrue, Past, Stamp, InUse, Watched, WrittenNow,
     HoldsNone, OnDisk, Bare, Lies, WatchedOnDisk, Emptied, Old
<1>3. CASE "clear" \notin scene
  BY <1>1, <1>3, NobodyClears DEF ClearedInv
<1>4. CASE ActiveObjectsNext /\ "clear" \in scene
  BY <1>1, <1>4, Next_ClearInv DEF ClearedInv
<1>5. QED
  BY <1>2, <1>3, <1>4

(* After clearObjects nothing of what there was is an instance again that  *)
(* is not to be removed, whatever blocks are loaded, activated, saved and  *)
(* unloaded, in runs in which the server is not stopped.  A stop makes     *)
(* every instance static, those that clearObjects marked for removal too;  *)
(* and it drops blocks from memory in the second they got their timestamp, *)
(* so that a clearObjects in that second does not make them old.           *)
THEOREM ClearedForGoodAlways ==
  ActiveObjectsSpec => [](NeverStops => ClearedForGood)
<1>1. ClearedInv /\ NeverStops => ClearedForGood
  BY DEF ClearedInv, NeverStops, ClearInv, Emptied, ClearedForGood, Gone, Instances
<1>2. ActiveObjectsInit => ClearedInv
  BY Init_Cleared
<1>3. ObjectsInv /\ ObjectsInv' /\ ClearedInv /\ [ActiveObjectsNext]_aoVars => ClearedInv'
  BY Next_Cleared
<1>4. QED
  BY <1>1, <1>2, <1>3, ObjectsInvAlways, PTL DEF ActiveObjectsSpec
=============================================================================

\* Two objects, with two ids, that move between two blocks which hold one each.
SPECIFICATION ActiveObjectsSpec
SYMMETRY Symmetry
CONSTANTS
    Objects = {o1, o2}
    NoObject = NoObject
    ObjectIds = {i1, i2}
    NoId = NoId
    ObjectBlocks = {b1, b2}
    NoBlock = NoBlock
    max_objects_per_block = 1
    MaxTime = 2
    Scenes <- MCScenes
    BLOCK_TIMESTAMP_UNDEFINED = 999

INVARIANTS
    ActiveObjectsTypeOK
    
    ClearedForGood

CHECK_DEADLOCK FALSE

--------------------------- MODULE MCActiveObjects ---------------------------
EXTENDS ActiveObjects, TLC

Symmetry == Permutations(Objects) \union Permutations(ObjectIds)
              \union Permutations(ObjectBlocks)

MCScenes == {{"clients"}, {"generate", "clear"}, {"delete"}, {"save", "restart"}}
=============================================================================

----------------------------- MODULE MCBlockSend -----------------------------
(* Small instances of BlockSend for TLC. *)
EXTENDS BlockSend

\* The first block is the player's own; the second is in the first search, at
\* the end of it, beyond the radius that is never throttled.
MCDist == [b \in 1..NumBlocks |-> IF b = 1 THEN 0 ELSE b]

\* A block at a corner of its cube is farther by Euclid than by its radius.
MCEuclid == [b \in 1..NumBlocks |-> IF b = 1 THEN 0 ELSE b + 1]

\* The world is in memory, or it is not.
MCWorlds == {{}, 1..NumBlocks}

\* Only the player's own block is in memory.
MCHalfWorld == {{1}}

==============================================================================

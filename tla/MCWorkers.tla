------------------------------ MODULE MCWorkers ------------------------------
EXTENDS Workers

MCFacesOf == [p \in MeshBlocks |-> IF p = 2 THEN {1, 3} ELSE {2}]
MCAroundOf == [p \in MeshBlocks |-> MeshBlocks]
MCChunk == [p \in Positions |-> IF p = 2 THEN "c2" ELSE "c1"]
MCFullArea == [c \in Chunks |-> {1, 2}]
MCInside == [p \in Positions |-> "mapgen"]
MCWorld == [reach |-> MCInside, generated |-> {}, damaged |-> {}, movable |-> {}, requests |-> 2]
MCWorlds == {MCWorld, [MCWorld EXCEPT !.generated = {1}, !.damaged = {2}],
             [MCWorld EXCEPT !.reach[2] = "outside"], [MCWorld EXCEPT !.reach[2] = "map"],
             [MCWorld EXCEPT !.generated = {1}, !.movable = {1}, !.requests = 1]}
=============================================================================

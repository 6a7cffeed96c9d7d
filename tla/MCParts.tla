------------------------------- MODULE MCParts -------------------------------
EXTENDS Parts

CONSTANTS wood, plank

Stack(name, n) == [name |-> name, count |-> n]
MCInventories ==
  {[main |-> <<Stack(wood, 2), Stack(plank, 1)>>, craft |-> <<Stack(wood, 1)>>,
    result |-> <<Empty>>, chest |-> <<Stack(plank, 2)>>]}
MCAllowed == {0, 1, 99, -1}

MCChunk == [p \in Positions |-> IF p = 2 THEN "c2" ELSE "c1"]
MCFullArea == [c \in Chunks |-> {1, 2}]
MCWorld == [reach |-> [p \in Positions |-> "mapgen"], generated |-> {}, damaged |-> {},
            movable |-> {}, requests |-> 2]
MCWorlds == {[MCWorld EXCEPT !.requests = 1], [MCWorld EXCEPT !.generated = {1}, !.damaged = {2}],
             [MCWorld EXCEPT !.reach[2] = "outside", !.requests = 1],
             [MCWorld EXCEPT !.reach[2] = "map", !.requests = 1],
             [MCWorld EXCEPT !.generated = {1}, !.movable = {1}, !.requests = 1]}

MCWaiting == [c \in ChannelClients |-> IF c = "c1" THEN 3 ELSE 1]
=============================================================================

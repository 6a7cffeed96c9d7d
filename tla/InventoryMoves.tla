--------------------------- MODULE InventoryMoves ---------------------------
(***************************************************************************)
(* Inventories (inventory.cpp, inventorymanager.cpp): the client asks for  *)
(* a move, a drop or a craft and at once shows what it expects of it; the  *)
(* server asks the mods what they allow, does it, and in its next step     *)
(* sends the lists that changed.                                           *)
(***************************************************************************)
EXTENDS Integers, Sequences, FiniteSets, FiniteSetsExt

CONSTANTS
  Items, NoItem,
  stack_max,
  PlayerLists,        (* the lists of the player's own inventory           *)
  OtherLists,         (* those of a node or a detached inventory           *)
  CraftList, ResultList, Ingredient, Product,
  InitialInventories,
  Allowed,            (* what the allow callbacks may return; -1: without  *)
                      (* limit, and the stack is not used up               *)
  MaySee,             (* what may happen: a subset of Happenings           *)
  MaxMoves            (* bound: actions of the client and of mods          *)

(* The player acts before the last action is answered; is dead; a mod      *)
(* takes items.                                                            *)
Happenings == {"hurry", "dead", "mod"}
Lists == PlayerLists \union OtherLists

Empty == [name |-> NoItem, count |-> 0]
Of(name, n) == IF n = 0 THEN Empty ELSE [name |-> name, count |-> n]
Stacks == {Empty} \union [name : Items, count : 1 .. stack_max]

ASSUME InventoryAssumption ==
  /\ NoItem \notin Items /\ stack_max \in Nat \ {0}
  /\ PlayerLists \intersect OtherLists = {}
  /\ {CraftList, ResultList} \subseteq PlayerLists /\ CraftList # ResultList
  /\ IsFiniteSet(Lists)
  /\ {Ingredient, Product} \subseteq Items
  /\ InitialInventories \subseteq [Lists -> Seq(Stacks)]
  /\ \A inv \in InitialInventories : inv[CraftList] # <<>> /\ inv[ResultList] # <<>>
  /\ Allowed \subseteq Nat \union {-1} /\ MaySee \subseteq Happenings /\ MaxMoves \in Nat

VARIABLES
  server,             (* the lists on the server                           *)
  client,             (* the client's copy of the player's, with its       *)
                      (* predictions                                       *)
  m_inventory_from_server,
  modified,           (* m_dirty of each list                              *)
  invModified,        (* m_dirty of the player's inventory                 *)
  toServer, toClient, (* messages on their way, in order                   *)
  dead,
  moves,
  offered,            (* history: items a callback gave without limit, and *)
                      (* so cannot be accounted for                        *)
  outside,            (* history: items dropped, or taken by mods          *)
  unanswered          (* history: an action the client predicted something *)
                      (* of did nothing, and no list was sent for it       *)

inventoryVars == <<server, client, m_inventory_from_server, modified, invModified, toServer,
                   toClient, dead, moves, offered, outside, unanswered>>

Mine(inv) == [l \in PlayerLists |-> inv[l]]

InventoryInit ==
  /\ server \in InitialInventories
  /\ client = Mine(server) /\ m_inventory_from_server = client
  /\ modified = {} /\ invModified = FALSE
  /\ toServer = <<>> /\ toClient = <<>>
  /\ dead = FALSE /\ moves = 0
  /\ offered = FALSE /\ outside = 0 /\ unanswered = FALSE

-----------------------------------------------------------------------------
(* ItemStack and InventoryList.                                            *)

(* A variant without a limit.                                              *)
RestOf_NoLimit(s, new) ==
  IF new.count = 0 \/ s.count = 0 \/ s.name = new.name THEN Empty ELSE new

(* What is left of a stack that is added to another.                       *)
RestOf(s, new) ==
  IF new.count = 0 \/ s.count = 0 THEN Empty
  ELSE IF s.name # new.name THEN new
  ELSE Of(new.name, Max({0, s.count + new.count - stack_max}))

PlusStack(s, new) ==
  IF new.count = 0 THEN s
  ELSE IF s.count = 0 THEN new
  ELSE Of(s.name, s.count + new.count - RestOf(s, new).count)

takeItem(s, n) == Of(s.name, s.count - Min({n, s.count}))

Put(inv, l, i, s) == [inv EXCEPT ![l][i] = s]
AddAt(inv, l, i, s) == Put(inv, l, i, PlusStack(inv[l][i], s))

(* A variant that forgets what did not fit.                                *)
moveItem_RestLost(inv, f, fi, t, ti, count, mayswap) ==
  LET from  == inv[f][fi]
      item  == Of(from.name, IF count = 0 THEN from.count ELSE Min({count, from.count}))
      rest  == RestOf(inv[t][ti], item)
  IN  [inv |-> AddAt(Put(inv, f, fi, takeItem(from, item.count)), t, ti, item),
       moved |-> item.count - rest.count, swapped |-> FALSE]

(* InventoryList::moveItem between two slots; count = 0 is the whole.      *)
moveItem(inv, f, fi, t, ti, count, mayswap) ==
  LET from  == inv[f][fi]
      item  == Of(from.name, IF count = 0 THEN from.count ELSE Min({count, from.count}))
      rest  == RestOf(inv[t][ti], item)
      taken == AddAt(Put(inv, f, fi, takeItem(from, item.count)), t, ti, item)
  IN  IF item.count = 0 THEN [inv |-> inv, moved |-> 0, swapped |-> FALSE]
      ELSE IF rest = item /\ mayswap
      THEN [inv |-> Put(Put(inv, f, fi, inv[t][ti]), t, ti, from), moved |-> 0,
            swapped |-> TRUE]
      ELSE [inv |-> AddAt(taken, f, fi, rest), moved |-> item.count - rest.count,
            swapped |-> FALSE]

(* Twice over the slots of a list: those that hold something have their    *)
(* turn first, then the empty ones.                                        *)
Visits(inv, l)     == 2 * Len(inv[l])
Visited(inv, l, k) == IF k <= Len(inv[l]) THEN k ELSE k - Len(inv[l])
ItsTurn(inv, l, k) == inv[l][Visited(inv, l, k)].count > 0 <=> k <= Len(inv[l])

(* InventoryList::addItem: returns the inventory and what is left.         *)
addInto(acc, l, k) ==
  LET i == Visited(acc.inv, l, k)
  IN  IF ~ItsTurn(acc.inv, l, k) THEN acc
      ELSE [inv  |-> AddAt(acc.inv, l, i, acc.rest),
            rest |-> RestOf(acc.inv[l][i], acc.rest)]

addItem(inv, l, item) ==
  LET added[k \in 0 .. Visits(inv, l)] ==
        IF k = 0 THEN [inv |-> inv, rest |-> item] ELSE addInto(added[k - 1], l, k)
  IN  added[Visits(inv, l)]

moveItemSomewhere(inv, f, fi, t, count) ==
  LET from  == inv[f][fi]
      item  == Of(from.name, Min({count, from.count}))
      added == addItem(Put(inv, f, fi, takeItem(from, item.count)), t, item)
  IN  AddAt(added.inv, f, fi, added.rest)

-----------------------------------------------------------------------------
(* IMoveAction::apply for one destination slot.  allow holds what the      *)
(* callbacks return: take and put, and for the way back of a swap.         *)

AtMost(n, a) == IF a = -1 THEN n ELSE Min({n, a})
Allows(a, n) == a = -1 \/ a >= n

SameInventory(a) == (a.from \in PlayerLists) = (a.to \in PlayerLists)

Nothing(inv) == [inv |-> inv, moved |-> 0, done |-> FALSE, refused |-> FALSE, free |-> FALSE]

(* The stack that is not used up is put back, and the destination of one  *)
(* that is not is as it was.                                               *)
Refilled(inv, a, was, toWas, m, take, caused) ==
  LET gaps == {i \in DOMAIN m.inv[a.to] : m.inv[a.to][i].count = 0}
      kept == IF ~caused /\ was.name # toWas.name /\ gaps # {}
              THEN Put(m.inv, a.to, Min(gaps), toWas) ELSE m.inv
  IN  IF take # -1 THEN m.inv
      ELSE IF m.moved > 0 \/ m.swapped THEN Put(kept, a.from, a.i, was) ELSE kept

MovedTo(inv, a, ti, m, count, take, put, caused) ==
  LET was    == inv[a.from][a.i]
      refill == Refilled(inv, a, was, inv[a.to][ti], m, take, caused)
  IN  [inv |-> IF put = -1
               THEN Put(Put(refill, a.to, ti, inv[a.to][ti]), a.from, a.i, takeItem(was, count))
               ELSE refill,
       moved |-> m.moved, done |-> TRUE, refused |-> FALSE, free |-> take = -1 \/ put = -1]

applyAllowed(inv, a, ti, count, take, put, swap, caused) ==
  IF count = 0 THEN [Nothing(inv) EXCEPT !.refused = TRUE]
  ELSE MovedTo(inv, a, ti, moveItem(inv, a.from, a.i, a.to, ti, count, swap), count, take, put,
             caused)

(* swaps: the destination holds something else, and is to be swapped. Both *)
(* ways have to be allowed.                                                *)
applyAsked(inv, a, ti, src, toWas, swaps, caused, allow) ==
  LET back == swaps /\ Allows(allow.take, src.count)
      swap == /\ back /\ Allows(allow.back, toWas.count)
              /\ SameInventory(a) \/ Allows(allow.put, src.count)
      put0 == IF ~SameInventory(a) THEN allow.put
              ELSE IF back THEN allow.back ELSE allow.take
      take == IF swaps /\ ~swap THEN 0 ELSE allow.take
      put  == IF swaps /\ ~swap THEN 0 ELSE put0
  IN  applyAllowed(inv, a, ti, AtMost(AtMost(src.count, take), put), take, put, swap, caused)

applyTo(inv, a, ti, count0, caused, allow) ==
  LET was   == inv[a.from][a.i]
      toWas == inv[a.to][ti]
      asked == Of(was.name, IF count0 > 0 THEN Min({count0, was.count}) ELSE was.count)
      full  == RestOf(toWas, asked) = asked
  IN  IF asked.count = 0 \/ (caused /\ full) THEN Nothing(inv)
      ELSE applyAsked(inv, a, ti, IF full THEN was ELSE asked, toWas, full, caused, allow)

(* With move_somewhere: to every slot that holds something, then to every  *)
(* empty one, until nothing is left to move or a move is refused.          *)
applyNext(acc, a, k, allow) ==
  LET inv == acc.res.inv
      r   == applyTo(inv, a, Visited(inv, a.to, k), acc.left, TRUE, allow)
  IN  IF acc.left = 0 \/ ~ItsTurn(inv, a.to, k) THEN acc
      ELSE [left |-> IF r.refused THEN 0 ELSE acc.left - r.moved,
            res  |-> [r EXCEPT !.done    = @ \/ acc.res.done,
                               !.refused = @ \/ acc.res.refused,
                               !.free    = @ \/ acc.res.free]]

applySomewhere(inv, a, allow) ==
  LET applied[k \in 0 .. Visits(inv, a.to)] ==
        IF k = 0 THEN [left |-> a.count, res |-> Nothing(inv)]
        ELSE applyNext(applied[k - 1], a, k, allow)
  IN  applied[Visits(inv, a.to)].res

-----------------------------------------------------------------------------
(* The client.                                                             *)

Action(type, from, i, to, ti, count) ==
  [type |-> type, from |-> from, i |-> i, to |-> to, ti |-> ti, count |-> count]

Quiet   == toServer = <<>> /\ toClient = <<>> /\ modified = {} /\ ~invModified
Send(a) == /\ moves < MaxMoves /\ moves' = moves + 1
           /\ Quiet \/ "hurry" \in MaySee
           /\ toServer' = Append(toServer, a)
ServerLeftAlone == UNCHANGED <<server, m_inventory_from_server, modified, invModified, toClient,
                               dead, offered, outside, unanswered>>

(* What the user can ask for: some of what the client shows at a slot, to  *)
(* another slot; a result of crafting is only taken.  Within the player's  *)
(* inventory the client shows at once what it expects.                     *)
Shown(l, i) == IF l \in PlayerLists THEN client[l][i].count ELSE server[l][i].count
Reachable(a) == /\ a.count \in 1 .. Shown(a.from, a.i)
                /\ a.to # ResultList

sendMove(from, i, to, ti, count) ==
  LET a == Action("move", from, i, to, ti, count)
  IN  /\ Reachable(a) /\ <<from, i>> # <<to, ti>>
      /\ Send(a)
      /\ client' = IF {from, to} \subseteq PlayerLists
                   THEN moveItem(client, from, i, to, ti, count, TRUE).inv ELSE client
      /\ ServerLeftAlone

sendMoveSomewhere(from, i, to, count) ==
  LET a == Action("somewhere", from, i, to, 0, count)
  IN  /\ Reachable(a) /\ from # to
      /\ Send(a)
      /\ client' = IF {from, to} \subseteq PlayerLists
                   THEN moveItemSomewhere(client, from, i, to, count) ELSE client
      /\ ServerLeftAlone

sendDrop(from, i, count) ==
  LET a == Action("drop", from, i, from, 0, count)
  IN  /\ a.count \in 1 .. Shown(from, i)
      /\ Send(a)
      /\ client' = IF from \in PlayerLists
                   THEN Put(client, from, i, takeItem(client[from][i], count)) ELSE client
      /\ ServerLeftAlone

sendCraft(count) ==
  /\ Send(Action("craft", CraftList, 0, ResultList, 0, count))
  /\ UNCHANGED client /\ ServerLeftAlone

(* Ten seconds after an update, and again, predictions are taken back.     *)
RevertPrediction ==
  /\ client # m_inventory_from_server
  /\ client' = m_inventory_from_server
  /\ UNCHANGED <<server, m_inventory_from_server, modified, invModified, toServer, toClient,
                 dead, moves, offered, outside, unanswered>>

(* A list that was not sent is kept: as the client shows it.               *)
handleCommand_Inventory ==
  /\ toClient # <<>>
  /\ client' = [l \in PlayerLists |-> IF l \in DOMAIN Head(toClient) THEN Head(toClient)[l]
                                      ELSE client[l]]
  /\ m_inventory_from_server' = client'
  /\ toClient' = Tail(toClient)
  /\ UNCHANGED <<server, modified, invModified, toServer, dead, moves, offered, outside,
                 unanswered>>

-----------------------------------------------------------------------------
(* The server.                                                             *)

(* A variant that forgets the list things come from.                       *)
Marks_Destination(a, lists) ==
  /\ invModified' = (invModified \/ a.from \in PlayerLists \/ a.to \in PlayerLists)
  /\ modified' = modified \union (lists \intersect PlayerLists \intersect {a.to})

(* handleCommand_InventoryAction marks the inventories of the action as    *)
(* modified before it looks at it; apply marks lists.  When it marks none, *)
(* the inventory is sent without lists, and repairs nothing.               *)
Marks(a, lists) ==
  /\ invModified' = (invModified \/ a.from \in PlayerLists \/ a.to \in PlayerLists)
  /\ modified' = modified \union (lists \intersect PlayerLists)

Answered(a, lists) ==
  unanswered' = (unanswered \/ /\ lists = {} /\ a.type # "craft"
                                /\ {a.from, a.to} \subseteq PlayerLists)

NextAction(types) == toServer # <<>> /\ Head(toServer).type \in types
                     /\ toServer' = Tail(toServer)

(* What the callbacks return, those that may be called: put only between   *)
(* inventories, back only for a swap.                                      *)
Answers(a) ==
  [take : Allowed,
   put  : IF SameInventory(a) THEN {0} ELSE Allowed,
   back : IF a.type = "move" /\ server[a.to][a.ti].count > 0 THEN Allowed ELSE {0}]

handleMove ==
  /\ NextAction({"move", "somewhere"})
  /\ \E allow \in Answers(Head(toServer)) :
       LET a == Head(toServer)
           r == IF a.type = "move" THEN applyTo(server, a, a.ti, a.count, FALSE, allow)
                ELSE applySomewhere(server, a, allow)
           lists == IF r.done \/ r.refused THEN {a.from, a.to} ELSE {}
       IN  /\ server' = r.inv
           /\ Marks(a, lists) /\ Answered(a, lists)
           /\ offered' = (offered \/ r.free)
  /\ UNCHANGED <<client, m_inventory_from_server, toClient, dead, moves, outside>>

(* on_drop of the item takes some of what may be dropped.                  *)
handleDrop ==
  /\ NextAction({"drop"})
  /\ LET a   == Head(toServer)
         was == server[a.from][a.i]
     IN  IF dead \/ was.count = 0
         THEN /\ Marks(a, {}) /\ Answered(a, {})
              /\ UNCHANGED <<server, offered, outside>>
         ELSE \E take \in Allowed :
              \E n \in 0 .. AtMost(Min({a.count, was.count}), take) :
                /\ server' = IF n > 0 /\ take # -1
                             THEN Put(server, a.from, a.i, takeItem(was, n)) ELSE server
                /\ LET lists == IF take = -1 /\ n > 0 THEN {} ELSE {a.from}
                   IN  Marks(a, lists) /\ Answered(a, lists)
                /\ offered' = (offered \/ (take = -1 /\ n > 0))
                /\ outside' = outside + n
  /\ UNCHANGED <<client, m_inventory_from_server, toClient, dead, moves>>

(* Crafts until the grid, the room for the result or the number asked for  *)
(* ends; the recipe makes one Product of one Ingredient in the first slot. *)
handleCraft ==
  /\ NextAction({"craft"})
  /\ LET a     == Head(toServer)
         grid  == server[CraftList][1]
         room  == IF server[ResultList][1].name \in {NoItem, Product}
                  THEN stack_max - server[ResultList][1].count ELSE 0
         could == IF grid.name = Ingredient THEN Min({grid.count, room}) ELSE 0
         n     == IF a.count = 0 THEN could ELSE Min({a.count, could})
     IN  /\ server' = AddAt(Put(server, CraftList, 1, takeItem(grid, n)),
                            ResultList, 1, Of(Product, n))
         /\ Marks(a, IF n > 0 THEN {CraftList, ResultList} ELSE {})
  /\ UNCHANGED <<client, m_inventory_from_server, toClient, dead, moves, offered, outside,
                 unanswered>>

(* ServerEnvironment::step.                                                *)
SendInventory ==
  /\ invModified \/ modified # {}
  /\ toClient' = Append(toClient, [l \in modified |-> server[l]])
  /\ modified' = {} /\ invModified' = FALSE
  /\ UNCHANGED <<server, client, m_inventory_from_server, toServer, dead, moves, offered, outside,
                 unanswered>>

(* The player dies; a mod takes what is in a slot.                         *)
Dies ==
  /\ "dead" \in MaySee /\ ~dead
  /\ dead' = TRUE
  /\ UNCHANGED <<server, client, m_inventory_from_server, modified, invModified, toServer,
                 toClient, moves, offered, outside, unanswered>>

ModTakes(l, i) ==
  /\ "mod" \in MaySee /\ moves < MaxMoves /\ moves' = moves + 1
  /\ server[l][i].count > 0
  /\ outside' = outside + server[l][i].count
  /\ server' = Put(server, l, i, Empty)
  /\ modified' = modified \union ({l} \intersect PlayerLists)
  /\ UNCHANGED <<client, m_inventory_from_server, invModified, toServer, toClient, dead, offered,
                 unanswered>>

Slots(l) == DOMAIN server[l]

InventoryNext ==
  \/ \E from \in Lists : \E i \in Slots(from), n \in 1 .. stack_max :
       \/ \E to \in Lists : \E ti \in Slots(to) : sendMove(from, i, to, ti, n)
       \/ \E to \in Lists : sendMoveSomewhere(from, i, to, n)
       \/ sendDrop(from, i, n)
  \/ \E n \in 0 .. 1 : sendCraft(n)
  \/ RevertPrediction \/ handleCommand_Inventory
  \/ handleMove \/ handleDrop \/ handleCraft
  \/ SendInventory \/ Dies
  \/ \E l \in Lists : \E i \in Slots(l) : ModTakes(l, i)

-----------------------------------------------------------------------------
(* Stacks stay within their limit, whatever the callbacks allow.           *)
InventoryTypeOK ==
  /\ \A l \in Lists : \A i \in Slots(l) : server[l][i] \in Stacks
  /\ \A l \in PlayerLists : \A i \in DOMAIN client[l] : client[l][i] \in Stacks
  /\ modified \subseteq PlayerLists /\ moves \in 0 .. MaxMoves

(* Items are neither made nor lost: what the lists hold and what left them *)
(* are together what there was, when no callback gives without limit.      *)
ItemsIn(inv) ==
  UNION {UNION {{<<l, i, n>> : n \in 1 .. inv[l][i].count} : i \in DOMAIN inv[l]} :
         l \in DOMAIN inv}
Total(inv) == Cardinality(ItemsIn(inv))
ItemsAreConserved ==
  offered \/ \E inv \in InitialInventories : Total(inv) = Total(server) + outside

(* When all is delivered the client takes for the server's what there is,  *)
(* unless an action came to nothing on the server: then it takes its own   *)
(* prediction for it, though the inventory was marked as not sent.         *)
ClientSeesServer ==
  Quiet /\ ~offered /\ ~unanswered => m_inventory_from_server = Mine(server)
=============================================================================

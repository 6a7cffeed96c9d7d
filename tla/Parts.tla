-------------------------------- MODULE Parts --------------------------------
(***************************************************************************)
(* The parts that are checked by themselves, side by side: in a behaviour  *)
(* one of them moves, the others stay as they were in the beginning, since *)
(* no two of them share anything.                                          *)
(***************************************************************************)
EXTENDS PacketBufferUse, SplitPackets, InventoryMoves, Emerge, ProxyTransfer,
        PeerIdentity, ModChannels

VARIABLE part

PartsInit ==
  /\ part \in {"buffer", "split", "inventory", "emerge", "proxy", "identity",
              "channels"}
  /\ BufferInit /\ SplitInit /\ InventoryInit /\ EmergeInit /\ ProxyInit
  /\ IdentityInit /\ ModChannelsInit
  /\ part # "channels" => enable_mod_channels
  /\ part # "buffer" => next_expected = 0
  /\ part # "emerge" => world = CHOOSE w \in Worlds : TRUE

BufferPart ==
  /\ part = "buffer" /\ BufferNext
  /\ UNCHANGED <<part, splitVars, inventoryVars, emergeVars, proxyVars,
                 identityVars, modChannelVars>>

SplitPart ==
  /\ part = "split" /\ SplitNext
  /\ UNCHANGED <<part, bufferVars, inventoryVars, emergeVars, proxyVars,
                 identityVars, modChannelVars>>

InventoryPart ==
  /\ part = "inventory" /\ InventoryNext
  /\ UNCHANGED <<part, bufferVars, splitVars, emergeVars, proxyVars,
                 identityVars, modChannelVars>>

EmergePart ==
  /\ part = "emerge" /\ EmergeNext
  /\ UNCHANGED <<part, bufferVars, splitVars, inventoryVars, proxyVars,
                 identityVars, modChannelVars>>

ProxyPart ==
  /\ part = "proxy" /\ ProxyNext
  /\ UNCHANGED <<part, bufferVars, splitVars, inventoryVars, emergeVars,
                 identityVars, modChannelVars>>

IdentityPart ==
  /\ part = "identity" /\ IdentityNext
  /\ UNCHANGED <<part, bufferVars, splitVars, inventoryVars, emergeVars,
                 proxyVars, modChannelVars>>

ModChannelsPart ==
  /\ part = "channels" /\ ModChannelsNext
  /\ UNCHANGED <<part, bufferVars, splitVars, inventoryVars, emergeVars,
                 proxyVars, identityVars>>

PartsNext == BufferPart \/ SplitPart \/ InventoryPart \/ EmergePart \/ ProxyPart
             \/ IdentityPart \/ ModChannelsPart

partsVars == <<part, bufferVars, splitVars, inventoryVars, emergeVars, proxyVars,
               identityVars, modChannelVars>>

PartsSpec == PartsInit /\ [][PartsNext]_partsVars

-----------------------------------------------------------------------------
(* The part that moves stays within its types; no stack exceeds its limit. *)
PartsTypeOK ==
  CASE part = "buffer"    -> BufferTypeOK
    [] part = "split"     -> SplitTypeOK
    [] part = "inventory" -> InventoryTypeOK
    [] part = "emerge"    -> EmergeTypeOK
    [] part = "proxy"     -> ProxyTypeOK
    [] part = "identity"  -> IdentityTypeOK
    [] part = "channels"  -> ModChannelsTypeOK

(* Whom a peer id stands for: one address, and one member of a channel.    *)
IdsAgree == IdsAreSound /\ MembersAgree
=============================================================================
